---- MODULE Spec2Model ----
\* Model of the invoice extraction-and-classification pipeline of
\* backend/src/agent/pdf_processing.py (PDFProcessingService) and of the
\* pydantic schemas of backend/src/schemas/pdf_processing.py.
\*
\* Texts are sequences of one-character strings, so that Python's substring
\* test (kw in texto), str.lower() and str.strip() are computed and not assumed.
\* Python floats of the scorer are exact rationals [num, den]; Optional values
\* are sequences: <<>> is None and <<x>> is x.
EXTENDS Integers, Sequences, FiniteSets, TLC

\* ------------------------------------------------------------------ bounds

\* longest description + full text, in lexicon phrases, of a classified document
MaxPhrases == 2

\* most departures of a model answer from the well-formed answer
MaxDefects == 2

\* last reading of the clock
MaxClock == 2

\* process_pdf calls running at once on one service
MaxCalls == 2

\* ------------------------------------------------------------------ text

None == <<>>
Some(x) == <<x>>

Lexicon ==
  <<<<"s","e","g","u","r","o"," ","v","e","í","c","u","l","o"," ","m","á","q","u","i","n","a"," ","e","q","u","i","p","a","m","e","n","t","o">>,
    <<"f","r","e","t","e"," ","t","r","a","n","s","p","o","r","t","e"," ","j","u","r","o","s"," ","t","a","r","i","f","a">>,
    <<"I","C","M","S"," ","I","P","I">>,
    <<"t","a","x","a"," ","i","t","r">>,
    <<"5","0","0"," ","l","i","t","r","o","s"," ","d","i","e","s","e","l">>,
    <<"n","o","t","a"," ","1","2","3">>,
    <<"s","e","g","u","r","o"," ","r","u","r","a","l"," ","s","a","f","r","a"," ","v","i","d","a"," ","a","t","i","v","o"," ","c","o","b","e","r","t","u","r","a"," ","s","i","n","i","s","t","r","o"," ","p","r","o","t","e","ç","ã","o">>>>
UpperChars == <<"A","B","C","D","E","F","G","H","I","J","K","L","M","N","O","P","Q","R","S","T","U","V","W","X","Y","Z","Á","Â","Ã","Ç","É","Í","Ó","Ô","Õ","Ú">>
LowerChars == <<"a","b","c","d","e","f","g","h","i","j","k","l","m","n","o","p","q","r","s","t","u","v","w","x","y","z","á","â","ã","ç","é","í","ó","ô","õ","ú">>

RECURSIVE IndexOf(_, _, _)
IndexOf(seq, c, i) ==
  IF i > Len(seq) THEN 0
  ELSE IF seq[i] = c THEN i ELSE IndexOf(seq, c, i + 1)

\* str.lower(), one character
LowerAt(c, i) == IF i = 0 THEN c ELSE LowerChars[i]
LowerChar(c) == LowerAt(c, IndexOf(UpperChars, c, 1))

\* str.lower()
Lower(s) == [i \in 1..Len(s) |-> LowerChar(s[i])]

\* Python's sub in s on strings
Contains(s, sub) ==
  \E i \in 0..(Len(s) - Len(sub)) :
    \A j \in 1..Len(sub) : s[i + j] = sub[j]

\* Python's x in list
InList(x, list) == \E i \in 1..Len(list) : list[i] = x

RECURSIVE JoinPhrases(_)
JoinPhrases(ps) ==
  IF Len(ps) = 0 THEN <<>>
  ELSE IF Len(ps) = 1 THEN ps[1]
  ELSE ps[1] \o <<" ">> \o JoinPhrases(Tail(ps))

RECURSIVE SeqsUpTo(_, _)
SeqsUpTo(S, n) ==
  IF n = 0 THEN {<<>>}
  ELSE UNION {{q} \cup (IF Len(q) = n - 1 THEN {Append(q, x) : x \in S} ELSE {}) :
              q \in SeqsUpTo(S, n - 1)}

LexiconPhrases == {Lexicon[i] : i \in 1..Len(Lexicon)}

\* ------------------------------------------------------------------ rule table

\* keywords of "INSUMOS AGRÍCOLAS" (31 entries, in list order)
KW_INSUMOS_AGRICOLAS ==
  <<
     <<"s","e","m","e","n","t","e">>, <<"s","e","m","e","n","t","e","s">>, <<"m","i","l","h","o">>,
     <<"s","o","j","a">>, <<"f","e","i","j","ã","o">>, <<"a","r","r","o","z">>,
     <<"t","r","i","g","o">>, <<"f","e","r","t","i","l","i","z","a","n","t","e">>, <<"a","d","u","b","o">>,
     <<"u","r","e","i","a">>, <<"n","p","k">>, <<"s","u","p","e","r","f","o","s","f","a","t","o">>,
     <<"c","l","o","r","e","t","o"," ","d","e"," ","p","o","t","á","s","s","i","o">>, <<"s","u","l","f","a","t","o"," ","d","e"," ","a","m","ô","n","i","o">>, <<"f","o","s","f","a","t","o">>,
     <<"n","i","t","r","a","t","o">>, <<"d","e","f","e","n","s","i","v","o">>, <<"h","e","r","b","i","c","i","d","a">>,
     <<"i","n","s","e","t","i","c","i","d","a">>, <<"f","u","n","g","i","c","i","d","a">>, <<"p","e","s","t","i","c","i","d","a">>,
     <<"a","g","r","o","t","ó","x","i","c","o">>, <<"r","o","u","n","d","u","p">>, <<"g","l","i","f","o","s","a","t","o">>,
     <<"a","t","r","a","z","i","n","a">>, <<"c","o","r","r","e","t","i","v","o">>, <<"c","a","l","c","á","r","i","o">>,
     <<"c","a","l">>, <<"g","e","s","s","o">>, <<"m","i","c","r","o","n","u","t","r","i","e","n","t","e">>,
     <<"i","n","o","c","u","l","a","n","t","e">>
  >>

\* keywords of "MANUTENÇÃO E OPERAÇÃO" (46 entries, in list order)
KW_MANUTENCAO_E_OPERACAO ==
  <<
     <<"c","o","m","b","u","s","t","í","v","e","l">>, <<"d","i","e","s","e","l">>, <<"g","a","s","o","l","i","n","a">>,
     <<"á","l","c","o","o","l">>, <<"e","t","a","n","o","l">>, <<"ó","l","e","o">>,
     <<"l","u","b","r","i","f","i","c","a","n","t","e">>, <<"g","r","a","x","a">>, <<"f","l","u","i","d","o"," ","h","i","d","r","á","u","l","i","c","o">>,
     <<"s","1","0">>, <<"a","d","i","t","i","v","a","d","o">>, <<"b"," ","s","1","0">>,
     <<"p","e","ç","a">>, <<"p","e","ç","a","s">>, <<"p","a","r","a","f","u","s","o">>,
     <<"p","o","r","c","a">>, <<"a","r","r","u","e","l","a">>, <<"r","o","l","a","m","e","n","t","o">>,
     <<"v","e","d","a","ç","ã","o">>, <<"c","o","m","p","o","n","e","n","t","e">>, <<"r","e","p","a","r","o">>,
     <<"r","e","p","o","s","i","ç","ã","o">>, <<"t","u","b","o">>, <<"c","a","b","o">>,
     <<"k","i","t">>, <<"f","i","x","a","ç","ã","o">>, <<"f","i","x","a","c","o","e","s">>,
     <<"d","i","n">>, <<"p","a","r","a","f","u","s","o">>, <<"p","o","r","c","a">>,
     <<"a","r","r","u","e","l","a">>, <<"b","u","c","h","a">>, <<"a","n","e","l">>,
     <<"j","u","n","t","a">>, <<"m","a","n","u","t","e","n","ç","ã","o">>, <<"c","o","n","s","e","r","t","o">>,
     <<"o","f","i","c","i","n","a">>, <<"m","e","c","â","n","i","c","o">>, <<"s","o","l","d","a","g","e","m">>,
     <<"p","n","e","u">>, <<"p","n","e","u","s">>, <<"f","i","l","t","r","o">>,
     <<"c","o","r","r","e","i","a">>, <<"m","a","n","g","u","e","i","r","a">>, <<"v","e","l","a">>,
     <<"b","a","t","e","r","i","a">>
  >>

\* keywords of "RECURSOS HUMANOS" (19 entries, in list order)
KW_RECURSOS_HUMANOS ==
  <<
     <<"m","ã","o"," ","d","e"," ","o","b","r","a">>, <<"t","r","a","b","a","l","h","a","d","o","r">>, <<"f","u","n","c","i","o","n","á","r","i","o">>,
     <<"o","p","e","r","á","r","i","o">>, <<"d","i","a","r","i","s","t","a">>, <<"t","e","m","p","o","r","á","r","i","o">>,
     <<"s","a","f","r","i","s","t","a">>, <<"s","a","l","á","r","i","o">>, <<"o","r","d","e","n","a","d","o">>,
     <<"p","a","g","a","m","e","n","t","o">>, <<"e","n","c","a","r","g","o">>, <<"f","g","t","s">>,
     <<"i","n","s","s">>, <<"v","a","l","e"," ","t","r","a","n","s","p","o","r","t","e">>, <<"v","a","l","e"," ","r","e","f","e","i","ç","ã","o">>,
     <<"c","e","s","t","a"," ","b","á","s","i","c","a">>, <<"1","3","º"," ","s","a","l","á","r","i","o">>, <<"f","é","r","i","a","s">>,
     <<"r","e","s","c","i","s","ã","o">>
  >>

\* keywords of "SERVIÇOS OPERACIONAIS" (19 entries, in list order)
KW_SERVICOS_OPERACIONAIS ==
  <<
     <<"f","r","e","t","e">>, <<"t","r","a","n","s","p","o","r","t","e">>, <<"c","a","r","r","e","t","o">>,
     <<"m","u","d","a","n","ç","a">>, <<"l","o","g","í","s","t","i","c","a">>, <<"c","o","l","h","e","i","t","a">>,
     <<"t","e","r","c","e","i","r","i","z","a","d","a">>, <<"c","o","l","h","e","i","t","a","d","e","i","r","a">>, <<"p","r","e","s","t","a","ç","ã","o"," ","d","e"," ","s","e","r","v","i","ç","o">>,
     <<"s","e","c","a","g","e","m">>, <<"a","r","m","a","z","e","n","a","g","e","m">>, <<"s","i","l","o">>,
     <<"e","s","t","o","c","a","g","e","m">>, <<"b","e","n","e","f","i","c","i","a","m","e","n","t","o">>, <<"p","u","l","v","e","r","i","z","a","ç","ã","o">>,
     <<"a","p","l","i","c","a","ç","ã","o">>, <<"p","l","a","n","t","i","o">>, <<"s","e","m","e","a","d","u","r","a">>,
     <<"c","u","l","t","i","v","o">>
  >>

\* keywords of "INFRAESTRUTURA E UTILIDADES" (25 entries, in list order)
KW_INFRAESTRUTURA_E_UTILIDADES ==
  <<
     <<"e","n","e","r","g","i","a">>, <<"e","l","é","t","r","i","c","a">>, <<"e","l","e","t","r","i","c","i","d","a","d","e">>,
     <<"l","u","z">>, <<"f","o","r","ç","a">>, <<"a","r","r","e","n","d","a","m","e","n","t","o">>,
     <<"a","l","u","g","u","e","l">>, <<"t","e","r","r","a">>, <<"p","r","o","p","r","i","e","d","a","d","e">>,
     <<"h","e","c","t","a","r","e">>, <<"c","o","n","s","t","r","u","ç","ã","o">>, <<"r","e","f","o","r","m","a">>,
     <<"o","b","r","a">>, <<"e","d","i","f","i","c","a","ç","ã","o">>, <<"a","m","p","l","i","a","ç","ã","o">>,
     <<"m","a","t","e","r","i","a","l">>, <<"c","o","n","c","r","e","t","o">>, <<"c","i","m","e","n","t","o">>,
     <<"f","e","r","r","o">>, <<"m","a","d","e","i","r","a">>, <<"t","i","j","o","l","o">>,
     <<"t","e","l","h","a">>, <<"t","i","n","t","a">>, <<"h","i","d","r","á","u","l","i","c","o">>,
     <<"e","l","é","t","r","i","c","o">>
  >>

\* keywords of "ADMINISTRATIVAS" (16 entries, in list order)
KW_ADMINISTRATIVAS ==
  <<
     <<"h","o","n","o","r","á","r","i","o">>, <<"c","o","n","t","á","b","i","l">>, <<"a","d","v","o","c","a","t","í","c","i","o">>,
     <<"a","g","r","o","n","ô","m","i","c","o">>, <<"c","o","n","s","u","l","t","o","r","i","a">>, <<"a","s","s","e","s","s","o","r","i","a">>,
     <<"a","u","d","i","t","o","r","i","a">>, <<"p","e","r","í","c","i","a">>, <<"d","e","s","p","e","s","a"," ","b","a","n","c","á","r","i","a">>,
     <<"f","i","n","a","n","c","e","i","r","a">>, <<"j","u","r","o","s">>, <<"t","a","r","i","f","a">>,
     <<"a","n","u","i","d","a","d","e">>, <<"c","a","r","t","ã","o">>, <<"c","o","n","t","a"," ","c","o","r","r","e","n","t","e">>,
     <<"e","m","p","r","é","s","t","i","m","o">>
  >>

\* keywords of "SEGUROS E PROTEÇÃO" (14 entries, in list order)
KW_SEGUROS_E_PROTECAO ==
  <<
     <<"s","e","g","u","r","o">>, <<"a","g","r","í","c","o","l","a">>, <<"r","u","r","a","l">>,
     <<"s","a","f","r","a">>, <<"p","r","o","d","u","t","i","v","i","d","a","d","e">>, <<"a","t","i","v","o">>,
     <<"m","á","q","u","i","n","a">>, <<"v","e","í","c","u","l","o">>, <<"e","q","u","i","p","a","m","e","n","t","o">>,
     <<"p","r","e","s","t","a","m","i","s","t","a">>, <<"v","i","d","a">>, <<"p","r","o","t","e","ç","ã","o">>,
     <<"c","o","b","e","r","t","u","r","a">>, <<"s","i","n","i","s","t","r","o">>
  >>

\* keywords of "IMPOSTOS E TAXAS" (16 entries, in list order)
KW_IMPOSTOS_E_TAXAS ==
  <<
     <<"i","t","r">>, <<"i","p","t","u">>, <<"i","p","v","a">>,
     <<"i","n","c","r","a">>, <<"c","c","i","r">>, <<"i","m","p","o","s","t","o">>,
     <<"t","a","x","a">>, <<"c","o","n","t","r","i","b","u","i","ç","ã","o">>, <<"t","r","i","b","u","t","o">>,
     <<"i","c","m","s">>, <<"i","p","i">>, <<"p","i","s">>,
     <<"c","o","f","i","n","s">>, <<"i","r">>, <<"c","s","l","l">>,
     <<"s","i","m","p","l","e","s">>
  >>

\* keywords of "INVESTIMENTOS" (25 entries, in list order)
KW_INVESTIMENTOS ==
  <<
     <<"a","q","u","i","s","i","ç","ã","o">>, <<"c","o","m","p","r","a">>, <<"i","n","v","e","s","t","i","m","e","n","t","o">>,
     <<"a","t","i","v","o">>, <<"m","á","q","u","i","n","a">>, <<"i","m","p","l","e","m","e","n","t","o">>,
     <<"t","r","a","t","o","r">>, <<"c","o","l","h","e","i","t","a","d","e","i","r","a">>, <<"p","l","a","n","t","a","d","e","i","r","a">>,
     <<"p","u","l","v","e","r","i","z","a","d","o","r">>, <<"g","r","a","d","e">>, <<"a","r","a","d","o">>,
     <<"e","q","u","i","p","a","m","e","n","t","o">>, <<"v","e","í","c","u","l","o">>, <<"c","a","m","i","n","h","ã","o">>,
     <<"c","a","m","i","n","h","o","n","e","t","e">>, <<"c","a","r","r","o">>, <<"m","o","t","o","c","i","c","l","e","t","a">>,
     <<"i","m","ó","v","e","l">>, <<"p","r","o","p","r","i","e","d","a","d","e">>, <<"f","a","z","e","n","d","a">>,
     <<"s","í","t","i","o">>, <<"i","n","f","r","a","e","s","t","r","u","t","u","r","a">>, <<"b","e","n","f","e","i","t","o","r","i","a","s">>,
     <<"i","n","s","t","a","l","a","ç","õ","e","s">>
  >>

classification_rules ==
  <<
     [categoria |-> "INSUMOS AGRÍCOLAS", keywords |-> KW_INSUMOS_AGRICOLAS],
     [categoria |-> "MANUTENÇÃO E OPERAÇÃO", keywords |-> KW_MANUTENCAO_E_OPERACAO],
     [categoria |-> "RECURSOS HUMANOS", keywords |-> KW_RECURSOS_HUMANOS],
     [categoria |-> "SERVIÇOS OPERACIONAIS", keywords |-> KW_SERVICOS_OPERACIONAIS],
     [categoria |-> "INFRAESTRUTURA E UTILIDADES", keywords |-> KW_INFRAESTRUTURA_E_UTILIDADES],
     [categoria |-> "ADMINISTRATIVAS", keywords |-> KW_ADMINISTRATIVAS],
     [categoria |-> "SEGUROS E PROTEÇÃO", keywords |-> KW_SEGUROS_E_PROTECAO],
     [categoria |-> "IMPOSTOS E TAXAS", keywords |-> KW_IMPOSTOS_E_TAXAS],
     [categoria |-> "INVESTIMENTOS", keywords |-> KW_INVESTIMENTOS]
  >>

fiscal_keywords ==
  <<<<"i","m","p","o","s","t","o">>,
    <<"t","a","x","a">>,
    <<"i","c","m","s">>,
    <<"i","p","i">>,
    <<"p","i","s">>,
    <<"c","o","f","i","n","s">>,
    <<"i","t","r">>,
    <<"i","p","t","u">>>>

product_indicators ==
  <<<<"l","i","t","r","o","s">>,
    <<"u","n","i","d","a","d","e">>,
    <<"p","c">>,
    <<"k","g">>,
    <<"t","o","n">>,
    <<"m">>,
    <<"c","m">>,
    <<"m","m">>,
    <<"q","u","a","n","t","i","d","a","d","e">>,
    <<"v","a","l","o","r"," ","u","n","i","t","á","r","i","o">>,
    <<"c","ó","d","i","g","o">>,
    <<"n","c","m">>,
    <<"l"," ","d","e">>,
    <<"g","r","a","n","e","l">>,
    <<"t","u","b","o">>,
    <<"k","i","t">>,
    <<"c","a","b","o">>,
    <<"p","a","r","a","f","u","s","o">>,
    <<"d","i","n">>>>

\* ------------------------------------------------------------------ values

\* A JSON scalar of the model's answer: absent key, null, string or number
\* literal (s holds the characters of the string or of the literal).
JMissing == [t |-> "missing", s |-> <<>>]
JNull == [t |-> "null", s |-> <<>>]
JStr(s) == [t |-> "str", s |-> s]
JNum(s) == [t |-> "num", s |-> s]

\* A Python value: t is its type. An int is n; a float and a Decimal are
\* n * 10^e (for a float, the digits of its shortest repr); a date is
\* n = 10000*year + 100*month + day. from records the type of the object a
\* Decimal was built from.
PyVal(t, s, n, e, from) == [t |-> t, s |-> s, n |-> n, e |-> e, from |-> from]
PyMissing == PyVal("missing", <<>>, 0, 0, "")
PyNone == PyVal("none", <<>>, 0, 0, "")
PyStr(s) == PyVal("str", s, 0, 0, "")
PyInt(n) == PyVal("int", <<>>, n, 0, "")
PyFloat(n, e) == PyVal("float", <<>>, n, e, "")
PyDate(y, m, d) == PyVal("date", <<>>, 10000 * y + 100 * m + d, 0, "")
Decimal(coef, exp, from) == PyVal("decimal", <<>>, coef, exp, from)

Digits == <<"0","1","2","3","4","5","6","7","8","9">>
IsDigit(c) == IndexOf(Digits, c, 1) > 0
DigitVal(c) == IndexOf(Digits, c, 1) - 1
AllDigits(s) == \A i \in 1..Len(s) : IsDigit(s[i])

RECURSIVE DigitsValue(_)
DigitsValue(s) ==
  IF Len(s) = 0 THEN 0
  ELSE 10 * DigitsValue(SubSeq(s, 1, Len(s) - 1)) + DigitVal(s[Len(s)])

RECURSIVE Pow10(_)
Pow10(k) == IF k <= 0 THEN 1 ELSE 10 * Pow10(k - 1)

\* str.strip(): leading and trailing blanks and newlines removed
IsSpace(c) == c = " " \/ c = "\n"
RECURSIVE LStrip(_)
LStrip(s) == IF Len(s) > 0 /\ IsSpace(s[1]) THEN LStrip(Tail(s)) ELSE s
RECURSIVE RStrip(_)
RStrip(s) ==
  IF Len(s) > 0 /\ IsSpace(s[Len(s)]) THEN RStrip(SubSeq(s, 1, Len(s) - 1)) ELSE s
Strip(s) == LStrip(RStrip(s))

\* A numeral [sign] digits [. digits] | [sign] . digits, as Decimal(str) and the
\* JSON decoder read it: ok, and the value coef * 10^exp with every written
\* digit kept (so "1234.50" is 123450 * 10^-2).
NumeralOf(neg, int_part, frac_part, dot) ==
  [ok |-> /\ AllDigits(int_part) /\ AllDigits(frac_part)
          /\ Len(int_part) + Len(frac_part) > 0,
   coef |-> (IF neg THEN 0 - 1 ELSE 1) * DigitsValue(int_part \o frac_part),
   exp |-> 0 - Len(frac_part),
   is_int |-> dot = 0]
NumeralAt(neg, body, dot) ==
  NumeralOf(neg,
            IF dot = 0 THEN body ELSE SubSeq(body, 1, dot - 1),
            IF dot = 0 THEN <<>> ELSE SubSeq(body, dot + 1, Len(body)),
            dot)
NumeralBody(neg, body) == NumeralAt(neg, body, IndexOf(body, ".", 1))
ParseNumeral(str) ==
  IF Len(str) > 0 /\ (str[1] = "-" \/ str[1] = "+")
  THEN NumeralBody(str[1] = "-", Tail(str))
  ELSE NumeralBody(FALSE, str)

\* float -> its shortest repr: trailing zeros of the fraction do not survive
RECURSIVE FloatDigits(_, _)
FloatDigits(coef, exp) ==
  IF exp < 0 /\ coef % 10 = 0 THEN FloatDigits(coef \div 10, exp + 1)
  ELSE PyFloat(coef, exp)

\* str(float): an integral float prints one fractional zero ("5.0")
DecimalOfFloat(f) ==
  IF f.e = 0 THEN Decimal(f.n * 10, -1, "float") ELSE Decimal(f.n, f.e, "float")

\* numeric equality of two values n * 10^e
SameNumber(a, b) ==
  a.n * Pow10(a.e - b.e) = b.n * Pow10(b.e - a.e)

\* ------------------------------------------------------------------ errors

\* A raised exception: its class, the fixed part of its message, the class of
\* the exception it wraps ("" when none) and the field locations its message
\* names.
Exc(type, msg, cause, locs) ==
  [type |-> type, msg |-> msg, cause |-> cause, locs |-> locs]
NoExc == Exc("", "", "", {})

Ok(v) == [ok |-> TRUE, val |-> v, exc |-> NoExc]
Raise(e) == [ok |-> FALSE, val |-> <<>>, exc |-> e]

\* ------------------------------------------------------------------ scorer

\* A confidence is the rational num/den with den > 0.
Rat(n, d) == [num |-> n, den |-> d]
RatGt(a, b) == a.num * b.den > b.num * a.den
RatGe(a, b) == a.num * b.den >= b.num * a.den
RatMin(a, b) == IF RatGt(a, b) THEN b ELSE a

\* the keywords counted by the if keyword in descricao branch of the loop
found_keywords_descricao(descricao, keywords) ==
  Cardinality({i \in 1..Len(keywords) : Contains(descricao, keywords[i])})

\* a second "if" in place of the elif: every keyword of the text is counted
CountedInTexto(texto, descricao, keywords) ==
  Cardinality({i \in 1..Len(keywords) : Contains(texto, keywords[i])})

\* the keywords counted by the elif keyword in texto branch
found_keywords_texto(texto, descricao, keywords) ==
  Cardinality({i \in 1..Len(keywords) :
                 /\ ~Contains(descricao, keywords[i])
                 /\ Contains(texto, keywords[i])})

is_fiscal_category(keywords) ==
  \E i \in 1..Len(fiscal_keywords) : InList(fiscal_keywords[i], keywords)

has_product_description(descricao) ==
  \E i \in 1..Len(product_indicators) : Contains(descricao, product_indicators[i])

\* a scorer without the boost for several keywords
NoMultiBoost(total_found) == 5
\* the boost of line 561: 1.2 = 6/5
MultiBoost(total_found) == IF total_found > 1 THEN 6 ELSE 5
\* the boost of line 565: 1.5 = 3/2
DescBoost(in_desc) == IF in_desc > 0 THEN 3 ELSE 2
\* a penalty of 0.1 for every fiscal category, whatever the description holds
FiscalPenaltyAlways(in_desc, keywords, descricao) ==
  IF is_fiscal_category(keywords) THEN 1 ELSE 10

\* a scorer that penalises no category
NoFiscalPenalty(in_desc, keywords, descricao) == 10
\* the penalty of lines 577-583: 0.1 = 1/10, 0.2 = 2/10, none = 10/10
FiscalPenalty(in_desc, keywords, descricao) ==
  IF is_fiscal_category(keywords)
  THEN (IF in_desc = 0 THEN 1
        ELSE IF has_product_description(descricao) THEN 2 ELSE 10)
  ELSE 10

\* base_confidence before the final min()
BaseConfidence(in_desc, in_texto, keywords, descricao) ==
  Rat((in_desc + in_texto) * MultiBoost(in_desc + in_texto) * DescBoost(in_desc)
        * FiscalPenalty(in_desc, keywords, descricao),
      Len(keywords) * 100)

\* the scorer without the final min(base_confidence, 1.0)
UncappedConfidence(in_desc, in_texto, keywords, descricao) ==
  IF in_desc + in_texto = 0 THEN Rat(0, 1)
  ELSE BaseConfidence(in_desc, in_texto, keywords, descricao)

\* lines 553-585, given the two counts
ConfidenceOf(in_desc, in_texto, keywords, descricao) ==
  IF in_desc + in_texto = 0 THEN Rat(0, 1)
  ELSE RatMin(BaseConfidence(in_desc, in_texto, keywords, descricao), Rat(1, 1))

calculate_classification_confidence(texto, descricao, keywords) ==
  ConfidenceOf(found_keywords_descricao(descricao, keywords),
               found_keywords_texto(texto, descricao, keywords),
               keywords, descricao)

\* ------------------------------------------------------------------ classifier

\* [kw for kw in keywords if kw in texto or kw in descricao]
RECURSIVE FoundKeywords(_, _, _)
FoundKeywords(keywords, texto, descricao) ==
  IF Len(keywords) = 0 THEN <<>>
  ELSE (IF Contains(texto, Head(keywords)) \/ Contains(descricao, Head(keywords))
        THEN <<Head(keywords)>> ELSE <<>>)
       \o FoundKeywords(Tail(keywords), texto, descricao)

Take(seq, n) == SubSeq(seq, 1, IF Len(seq) < n THEN Len(seq) ELSE n)

\* lines 602-605: the text "label - k1, k2, k3" as its label and the joined parts
AutomaticLabel ==
  <<"C","l","a","s","s","i","f","i","c","a","ç","ã","o"," ","a","u","t","o","m","á","t","i","c","a">>
SpecificDescription(categoria, found) ==
  IF Len(found) > 0
  THEN [label |-> categoria, keywords |-> Take(found, 3)]
  ELSE [label |-> categoria, keywords |-> <<AutomaticLabel>>]

generate_specific_description(categoria, texto, descricao, keywords) ==
  SpecificDescription(categoria, FoundKeywords(keywords, texto, descricao))

\* ClassificacaoDespesaExtraidaSchema
ClassificacaoDespesa(categoria, descricao, percentual, confianca) ==
  [categoria |-> categoria, descricao |-> descricao,
   percentual |-> percentual, confianca |-> confianca]

\* list.sort(key=lambda x: x.confianca, reverse=True): stable, descending
RECURSIVE InsertByConfianca(_, _)
InsertByConfianca(sorted, c) ==
  IF Len(sorted) = 0 THEN <<c>>
  ELSE IF RatGt(c.confianca, Head(sorted).confianca)
       THEN <<c>> \o sorted
       ELSE <<Head(sorted)>> \o InsertByConfianca(Tail(sorted), c)

\* the list left in the order of the rule table
Unsorted(cs) == cs

RECURSIVE SortByConfianca(_)
SortByConfianca(cs) ==
  IF Len(cs) = 0 THEN <<>>
  ELSE InsertByConfianca(SortByConfianca(SubSeq(cs, 1, Len(cs) - 1)), cs[Len(cs)])

\* a threshold test that also passes a confidence of exactly 0.15
AtLeastThreshold(confidence) == RatGe(confidence, Rat(15, 100))

\* the confidence > 0.15 test of line 494
AboveThreshold(confidence) == RatGt(confidence, Rat(15, 100))

\* the confidence computed for each category of the rule table rules
\* (self.classification_rules), in table order
Confidences(rules, texto_lower, descricao_lower) ==
  [i \in 1..Len(rules) |->
     calculate_classification_confidence(texto_lower, descricao_lower,
                                         rules[i].keywords)]

\* a kept classification whose percentage follows its confidence
KeptByConfidence(rule, confidence, texto_lower, descricao_lower) ==
  ClassificacaoDespesa(
    rule.categoria,
    generate_specific_description(rule.categoria, texto_lower, descricao_lower,
                                  rule.keywords),
    Decimal((confidence.num * 10000) \div confidence.den, 0 - 2, "str"),
    confidence)

\* the classification appended for a kept category (lines 496-506)
KeptClassificacao(rule, confidence, texto_lower, descricao_lower) ==
  ClassificacaoDespesa(
    rule.categoria,
    generate_specific_description(rule.categoria, texto_lower, descricao_lower,
                                  rule.keywords),
    Decimal(10000, 0 - 2, "str"),
    confidence)

\* the loop of lines 482-506 from category i on
RECURSIVE KeptFrom(_, _, _, _, _)
KeptFrom(rules, i, confs, texto_lower, descricao_lower) ==
  IF i > Len(rules) THEN <<>>
  ELSE (IF AboveThreshold(confs[i])
        THEN <<KeptClassificacao(rules[i], confs[i], texto_lower, descricao_lower)>>
        ELSE <<>>)
       \o KeptFrom(rules, i + 1, confs, texto_lower, descricao_lower)

\* ClassificacaoDespesaExtraidaSchema.confianca: ge=0, le=1
ConfiancaValid(confidence) ==
  RatGe(confidence, Rat(0, 1)) /\ RatGe(Rat(1, 1), confidence)

\* the first category whose classification the schema rejects (0 when none):
\* a kept category with a confidence outside [0, 1]
RECURSIVE FirstRejected(_, _)
FirstRejected(confs, i) ==
  IF i > Len(confs) THEN 0
  ELSE IF AboveThreshold(confs[i]) /\ ~ConfiancaValid(confs[i]) THEN i
  ELSE FirstRejected(confs, i + 1)

\* lines 510-517
FallbackClassificacao ==
  ClassificacaoDespesa("ADMINISTRATIVAS",
                       [label |-> "Classificação automática - Revisar manualmente",
                        keywords |-> <<>>],
                       Decimal(10000, 0 - 2, "str"),
                       Rat(2, 10))

\* the fallback entry appended to every list, empty or not
BestWithFallback(kept) ==
  Take(SortByConfianca(kept \o <<FallbackClassificacao>>), 3)

\* lines 509-521: fallback, sort, the three best
BestOf(kept) ==
  Take(SortByConfianca(IF Len(kept) = 0 THEN <<FallbackClassificacao>> ELSE kept), 3)

\* the outcome of the classifier: the record with its classifications
\* replaced, or the schema's error; and the confidences it logged
Classified(ok, dados, exc, confs) ==
  [ok |-> ok, val |-> dados, exc |-> exc, confidences |-> confs]

\* a classifier that adds the kept categories to the list already on the record
ClassifiedKeepingList(rules, dados, confs, rejected, texto_lower, descricao_lower) ==
  Classified(TRUE,
             [dados EXCEPT !.classificacoes_despesa =
                Take(SortByConfianca(
                       @ \o KeptFrom(rules, 1, confs, texto_lower, descricao_lower)), 3)],
             NoExc, confs)

ClassifiedAt(rules, dados, confs, rejected, texto_lower, descricao_lower) ==
  IF rejected > 0
  THEN Classified(FALSE, <<>>,
                  Exc("ValidationError",
                      "validation error for ClassificacaoDespesaExtraidaSchema",
                      "", {<<"confianca">>}),
                  SubSeq(confs, 1, rejected))
  ELSE Classified(TRUE,
                  [dados EXCEPT !.classificacoes_despesa =
                     BestOf(KeptFrom(rules, 1, confs, texto_lower, descricao_lower))],
                  NoExc, confs)

ClassifiedWith(rules, dados, confs, texto_lower, descricao_lower) ==
  ClassifiedAt(rules, dados, confs, FirstRejected(confs, 1), texto_lower,
               descricao_lower)

ClassifyLowered(rules, dados, texto_lower, descricao_lower) ==
  ClassifiedWith(rules, dados, Confidences(rules, texto_lower, descricao_lower),
                 texto_lower, descricao_lower)

\* a classifier that stores the lowered description back on the record
ClassifyStoringLowered(rules, dados, texto_original) ==
  ClassifyLowered(rules, [dados EXCEPT !.descricao_produtos = Lower(@)],
                  Lower(texto_original), Lower(dados.descricao_produtos))

\* rules is self.classification_rules, read by the loop of line 482
apply_automatic_classification(rules, dados, texto_original) ==
  ClassifyLowered(rules, dados, Lower(texto_original), Lower(dados.descricao_produtos))

\* ------------------------------------------------------------------ parsing of dates and amounts

IsLeap(y) == (y % 4 = 0 /\ y % 100 /= 0) \/ y % 400 = 0
DaysInMonth(y, m) ==
  IF m = 2 THEN (IF IsLeap(y) THEN 29 ELSE 28)
  ELSE IF m \in {4, 6, 9, 11} THEN 30 ELSE 31

\* %m of strptime: 1[0-2]|0[1-9]|[1-9]
MonthDirective(s) ==
  \/ Len(s) = 1 /\ IsDigit(s[1]) /\ DigitVal(s[1]) >= 1
  \/ Len(s) = 2 /\ AllDigits(s) /\ DigitsValue(s) \in 1..12

\* %d of strptime: 3[01]|[12]\d|0[1-9]|[1-9]| [1-9]
DayDirective(s) ==
  \/ Len(s) = 1 /\ IsDigit(s[1]) /\ DigitVal(s[1]) >= 1
  \/ Len(s) = 2 /\ AllDigits(s) /\ DigitsValue(s) \in 1..31
  \/ Len(s) = 2 /\ s[1] = " " /\ IsDigit(s[2]) /\ DigitVal(s[2]) >= 1

\* the text matches the regular expression of "%Y-%m-%d": four digits, a dash,
\* the month, a dash, the day, and nothing else
MatchesFormat(s, rest, dash) ==
  /\ Len(s) >= 8
  /\ AllDigits(SubSeq(s, 1, 4))
  /\ s[5] = "-"
  /\ dash > 0
  /\ MonthDirective(SubSeq(rest, 1, dash - 1))
  /\ DayDirective(SubSeq(rest, dash + 1, Len(rest)))

DayValue(day) == DigitsValue(IF day[1] = " " THEN Tail(day) ELSE day)

\* a date constructor that does not check the day against the month
MakeDateUnchecked(y, m, d) == Ok(PyDate(y, m, d))

\* datetime(year, month, day)
MakeDate(y, m, d) ==
  IF y < 1 \/ d > DaysInMonth(y, m)
  THEN Raise(Exc("ValueError", "day is out of range for month", "", {}))
  ELSE Ok(PyDate(y, m, d))

StrptimeAt(s, rest, dash) ==
  IF ~MatchesFormat(s, rest, dash)
  THEN Raise(Exc("ValueError", "time data does not match format '%Y-%m-%d'", "", {}))
  ELSE MakeDate(DigitsValue(SubSeq(s, 1, 4)),
                DigitsValue(SubSeq(rest, 1, dash - 1)),
                DayValue(SubSeq(rest, dash + 1, Len(rest))))

StrptimeRest(s, rest) == StrptimeAt(s, rest, IndexOf(rest, "-", 1))

\* datetime.strptime(s, "%Y-%m-%d").date()
strptime(s) == StrptimeRest(s, SubSeq(s, 6, Len(s)))

\* decimal.Decimal(s) of a string
DecimalOfNumeral(p) ==
  IF p.ok THEN Ok(Decimal(p.coef, p.exp, "str"))
  ELSE Raise(Exc("InvalidOperation", "[<class 'decimal.ConversionSyntax'>]", "", {}))
DecimalOfStr(s) == DecimalOfNumeral(ParseNumeral(Strip(s)))

\* ------------------------------------------------------------------ response parser (JSON decoding)

\* json.loads of one scalar: a number literal with a fraction becomes a float,
\* one without becomes an int
LoadNumber(p) == IF p.is_int THEN PyInt(p.coef) ELSE FloatDigits(p.coef, p.exp)
LoadScalar(j) ==
  IF j.t = "missing" THEN PyMissing
  ELSE IF j.t = "null" THEN PyNone
  ELSE IF j.t = "str" THEN PyStr(j.s)
  ELSE LoadNumber(ParseNumeral(j.s))

LoadContainerTag(t) == IF t = "null" THEN "none" ELSE t

LoadParcela(p) ==
  [numero_parcela |-> LoadScalar(p.numero_parcela),
   data_vencimento |-> LoadScalar(p.data_vencimento),
   valor_parcela |-> LoadScalar(p.valor_parcela)]

\* json.loads of a well-formed document
LoadDocument(doc) ==
  [kind |-> doc.kind,
   numero_nota_fiscal |-> LoadScalar(doc.numero_nota_fiscal),
   data_emissao |-> LoadScalar(doc.data_emissao),
   descricao_produtos |-> LoadScalar(doc.descricao_produtos),
   valor_total |-> LoadScalar(doc.valor_total),
   fornecedor |-> [t |-> LoadContainerTag(doc.fornecedor.t),
                   razao_social |-> LoadScalar(doc.fornecedor.razao_social),
                   nome_fantasia |-> LoadScalar(doc.fornecedor.nome_fantasia),
                   cnpj |-> LoadScalar(doc.fornecedor.cnpj)],
   faturado |-> [t |-> LoadContainerTag(doc.faturado.t),
                 nome_completo |-> LoadScalar(doc.faturado.nome_completo),
                 cpf |-> LoadScalar(doc.faturado.cpf)],
   parcelas |-> [t |-> LoadContainerTag(doc.parcelas.t),
                 items |-> [i \in 1..Len(doc.parcelas.items) |->
                              LoadParcela(doc.parcelas.items[i])]],
   quantidade_parcelas |-> LoadScalar(doc.quantidade_parcelas),
   classificacoes_despesa |-> doc.classificacoes_despesa,
   confianca_geral |-> LoadScalar(doc.confianca_geral),
   observacoes_ia |-> LoadScalar(doc.observacoes_ia)]

\* ------------------------------------------------------------------ validator

\* a value converted by conv when it is a string, left as it is otherwise
DateOf(v) == IF v.t = "str" THEN strptime(v.s) ELSE Ok(v)
AmountOf(v) == IF v.t = "str" THEN DecimalOfStr(v.s) ELSE Ok(v)

\* the conversions of one parcela (lines 422-428): due date, then amount
CoercedParcela(parcela, date, amount) ==
  IF ~date.ok THEN date
  ELSE IF ~amount.ok THEN amount
  ELSE Ok([parcela EXCEPT !.data_vencimento = date.val,
                          !.valor_parcela = amount.val])
CoerceParcela(parcela) ==
  CoercedParcela(parcela, DateOf(parcela.data_vencimento),
                 AmountOf(parcela.valor_parcela))

\* the loop over data["parcelas"]: the first failing conversion is raised
ConsParcela(first, rest) ==
  IF ~first.ok THEN first
  ELSE IF ~rest.ok THEN rest
  ELSE Ok(<<first.val>> \o rest.val)
RECURSIVE CoerceParcelas(_)
CoerceParcelas(items) ==
  IF Len(items) = 0 THEN Ok(<<>>)
  ELSE ConsParcela(CoerceParcela(Head(items)), CoerceParcelas(Tail(items)))

\* lines 419-428: "parcelas" in data, len(), the loop
ParcelasOf(parcelas) ==
  IF parcelas.t = "missing" THEN Ok(<<>>)
  ELSE IF parcelas.t = "none"
  THEN Raise(Exc("TypeError", "object of type 'NoneType' has no len()", "", {}))
  ELSE CoerceParcelas(parcelas.items)

\* lines 413-433: the date and amount strings of the dict are converted, in the
\* order issue date, installments, total; the first failure is raised
CoercedData(data, emissao, parcelas, total) ==
  IF ~emissao.ok THEN emissao
  ELSE IF ~parcelas.ok THEN parcelas
  ELSE IF ~total.ok THEN total
  ELSE Ok([data EXCEPT !.data_emissao = emissao.val,
                       !.parcelas.items = parcelas.val,
                       !.valor_total = total.val])
CoerceData(data) ==
  IF data.kind /= "object"
  THEN Raise(Exc("AttributeError", "object has no attribute 'get'", "", {}))
  ELSE CoercedData(data, DateOf(data.data_emissao), ParcelasOf(data.parcelas),
                   AmountOf(data.valor_total))

\* the temporary classification of lines 437-444
PlaceholderClassificacao ==
  ClassificacaoDespesa("MANUTENÇÃO E OPERAÇÃO",
                       [label |-> "Óleo diesel - Combustível", keywords |-> <<>>],
                       Decimal(1000, 0 - 1, "float"),
                       Rat(9, 10))

\* ---- pydantic field validation: the set of failing locations of a value

IndexName == <<"0", "1", "2", "3">>

\* a required str field declared with a default: an absent key passes
StrOrAbsentErrors(v, loc) == IF v.t \in {"str", "missing"} THEN {} ELSE {loc}
StrErrors(v, loc) == IF v.t = "str" THEN {} ELSE {loc}
OptionalStrErrors(v, loc) == IF v.t \in {"missing", "none", "str"} THEN {} ELSE {loc}
DateErrors(v, loc) == IF v.t = "date" THEN {} ELSE {loc}

\* Decimal field: a Decimal is kept, an int or a float is converted
ToDecimal(v) ==
  IF v.t = "int" THEN Decimal(v.n, 0, "int")
  ELSE IF v.t = "float" THEN DecimalOfFloat(v)
  ELSE v
PositiveDecimalErrors(v, loc) ==
  IF v.t \in {"decimal", "int", "float"} /\ v.n > 0 THEN {} ELSE {loc}

\* int field: an int, a string of digits or an integral float
ToInt(v) ==
  IF v.t = "str" THEN DigitsValue(v.s)
  ELSE v.n
IsIntLike(v) ==
  \/ v.t = "int"
  \/ v.t = "str" /\ Len(v.s) > 0 /\ AllDigits(v.s)
  \/ v.t = "float" /\ v.e = 0
IntGe1Errors(v, loc) == IF IsIntLike(v) /\ ToInt(v) >= 1 THEN {} ELSE {loc}

\* float field with ge=0, le=1
UnitFloatErrors(v, loc) ==
  IF v.t \in {"int", "float"} /\ v.n >= 0 /\ v.n <= Pow10(0 - v.e) THEN {} ELSE {loc}

FornecedorErrors(f) ==
  IF f.t /= "object" THEN {<<"fornecedor">>}
  ELSE StrErrors(f.razao_social, <<"fornecedor", "razao_social">>)
       \cup OptionalStrErrors(f.nome_fantasia, <<"fornecedor", "nome_fantasia">>)
       \cup StrErrors(f.cnpj, <<"fornecedor", "cnpj">>)

FaturadoErrors(f) ==
  IF f.t \in {"missing", "none"} THEN {}
  ELSE StrErrors(f.nome_completo, <<"faturado", "nome_completo">>)
       \cup StrErrors(f.cpf, <<"faturado", "cpf">>)

ParcelaErrors(p, i) ==
  IntGe1Errors(p.numero_parcela, <<"parcelas", IndexName[i], "numero_parcela">>)
  \cup DateErrors(p.data_vencimento, <<"parcelas", IndexName[i], "data_vencimento">>)
  \cup PositiveDecimalErrors(p.valor_parcela, <<"parcelas", IndexName[i], "valor_parcela">>)

ParcelasErrors(ps) ==
  IF ps.t /= "array" \/ Len(ps.items) < 1 THEN {<<"parcelas">>}
  ELSE UNION {ParcelaErrors(ps.items[i], i) : i \in 1..Len(ps.items)}

\* the failing locations of DadosExtraidosPDFSchema(**data)
SchemaErrors(data) ==
  OptionalStrErrors(data.numero_nota_fiscal, <<"numero_nota_fiscal">>)
  \cup DateErrors(data.data_emissao, <<"data_emissao">>)
  \cup StrErrors(data.descricao_produtos, <<"descricao_produtos">>)
  \cup PositiveDecimalErrors(data.valor_total, <<"valor_total">>)
  \cup FornecedorErrors(data.fornecedor)
  \cup FaturadoErrors(data.faturado)
  \cup ParcelasErrors(data.parcelas)
  \cup IntGe1Errors(data.quantidade_parcelas, <<"quantidade_parcelas">>)
  \cup UnitFloatErrors(data.confianca_geral, <<"confianca_geral">>)
  \cup OptionalStrErrors(data.observacoes_ia, <<"observacoes_ia">>)

OptionalStr(v) == IF v.t = "str" THEN Some(v.s) ELSE None

ParcelaExtraida(p) ==
  [numero_parcela |-> ToInt(p.numero_parcela),
   data_vencimento |-> p.data_vencimento,
   valor_parcela |-> ToDecimal(p.valor_parcela)]

\* the model instance DadosExtraidosPDFSchema(**data) of a dict without errors
DadosExtraidosPDF(data) ==
  [numero_nota_fiscal |-> OptionalStr(data.numero_nota_fiscal),
   data_emissao |-> data.data_emissao,
   descricao_produtos |-> data.descricao_produtos.s,
   valor_total |-> ToDecimal(data.valor_total),
   fornecedor |-> [razao_social |-> data.fornecedor.razao_social.s,
                   nome_fantasia |-> OptionalStr(data.fornecedor.nome_fantasia),
                   cnpj |-> data.fornecedor.cnpj.s],
   faturado |-> IF data.faturado.t = "object"
                THEN Some([nome_completo |-> data.faturado.nome_completo.s,
                           cpf |-> data.faturado.cpf.s])
                ELSE None,
   parcelas |-> [i \in 1..Len(data.parcelas.items) |->
                   ParcelaExtraida(data.parcelas.items[i])],
   quantidade_parcelas |-> ToInt(data.quantidade_parcelas),
   classificacoes_despesa |-> data.classificacoes_despesa,
   confianca_geral |-> PyFloat(data.confianca_geral.n, data.confianca_geral.e),
   observacoes_ia |-> OptionalStr(data.observacoes_ia)]

\* the schema construction of line 452
SchemaResultOf(data, errors) ==
  IF errors = {} THEN Ok(DadosExtraidosPDF(data))
  ELSE Raise(Exc("ValidationError",
                 "validation errors for DadosExtraidosPDFSchema", "", errors))
SchemaResult(data) == SchemaResultOf(data, SchemaErrors(data))

\* except Exception as e: raise ValueError(f"Dados extraídos inválidos: {e}")
InvalidData(e) == Exc("ValueError", "Dados extraídos inválidos", e.type, e.locs)

\* lines 437-444: data["classificacoes_despesa"] is assigned the temporary
\* classification, whatever the answer held under that key
WithPlaceholder(data) ==
  [data EXCEPT !.classificacoes_despesa = <<PlaceholderClassificacao>>]

SchemaOrRaise(coerced) ==
  IF coerced.ok THEN SchemaResult(WithPlaceholder(coerced.val)) ELSE coerced
WrapInvalid(result) == IF result.ok THEN result ELSE Raise(InvalidData(result.exc))

validate_and_structure_data(data) == WrapInvalid(SchemaOrRaise(CoerceData(data)))

\* ------------------------------------------------------------------ response parser (text)

\* The model's answer is a sequence of tokens: a fence marker (three backquotes), the tag
\* json, white space, a run of prose (w names it), or the text of one
\* well-formed JSON document (doc). The text decodes as JSON exactly when it is
\* one document token.
EmptyParcela == [numero_parcela |-> JMissing, data_vencimento |-> JMissing,
                 valor_parcela |-> JMissing]
EmptyDoc ==
  [kind |-> "none",
   numero_nota_fiscal |-> JMissing, data_emissao |-> JMissing,
   descricao_produtos |-> JMissing, valor_total |-> JMissing,
   fornecedor |-> [t |-> "missing", razao_social |-> JMissing,
                   nome_fantasia |-> JMissing, cnpj |-> JMissing],
   faturado |-> [t |-> "missing", nome_completo |-> JMissing, cpf |-> JMissing],
   parcelas |-> [t |-> "missing", items |-> <<>>],
   quantidade_parcelas |-> JMissing, classificacoes_despesa |-> <<>>,
   confianca_geral |-> JMissing, observacoes_ia |-> JMissing]

Token(k, w, doc) == [k |-> k, w |-> w, doc |-> doc]
Fence == Token("fence", "FENCE", EmptyDoc)
JsonTag == Token("json", "json", EmptyDoc)
Blank == Token("ws", " ", EmptyDoc)
Newline == Token("ws", "\n", EmptyDoc)
Prose(w) == Token("prose", w, EmptyDoc)
DocText(doc) == Token("doc", "", doc)

RECURSIVE LStripTokens(_)
LStripTokens(t) ==
  IF Len(t) > 0 /\ t[1].k = "ws" THEN LStripTokens(Tail(t)) ELSE t
RECURSIVE RStripTokens(_)
RStripTokens(t) ==
  IF Len(t) > 0 /\ t[Len(t)].k = "ws"
  THEN RStripTokens(SubSeq(t, 1, Len(t) - 1)) ELSE t
\* str.strip() of a response
StripTokens(t) == LStripTokens(RStripTokens(t))

\* position of the first fence marker at or after i (0 when none)
RECURSIVE FindFence(_, _)
FindFence(t, i) ==
  IF i > Len(t) THEN 0
  ELSE IF t[i].k = "fence" THEN i ELSE FindFence(t, i + 1)

\* position of the first json fence at or after i (0 when none)
RECURSIVE FindFenceJson(_, _)
FindFenceJson(t, i) ==
  IF i >= Len(t) THEN 0
  ELSE IF t[i].k = "fence" /\ t[i + 1].k = "json" THEN i
       ELSE FindFenceJson(t, i + 1)

\* t.split(sep)[0] for the fence marker as sep
BeforeFenceAt(t, f) == IF f = 0 THEN t ELSE SubSeq(t, 1, f - 1)
BeforeFence(t) == BeforeFenceAt(t, FindFence(t, 1))

\* t.split(json fence)[1].split(fence)[0]
AfterFenceJson(t) ==
  BeforeFence(SubSeq(t, FindFenceJson(t, 1) + 2, Len(t)))

\* t.split(fence)[1].split(fence)[0]
AfterFence(t) ==
  BeforeFence(SubSeq(t, FindFence(t, 1) + 1, Len(t)))

\* a parser that takes the first fenced block whatever its tag
UnfencedFirstBlock(json_text) ==
  IF FindFence(json_text, 1) > 0 THEN AfterFence(json_text) ELSE json_text

\* lines 371-385: the text handed to json.loads
Unfenced(json_text) ==
  IF FindFenceJson(json_text, 1) > 0 THEN AfterFenceJson(json_text)
  ELSE IF FindFence(json_text, 1) > 0 THEN AfterFence(json_text)
  ELSE json_text
JsonText(response_text) == StripTokens(Unfenced(StripTokens(response_text)))

\* json.loads(json_text)
json_loads(json_text) ==
  IF Len(json_text) = 1 /\ json_text[1].k = "doc"
  THEN Ok(LoadDocument(json_text[1].doc))
  ELSE Raise(Exc("JSONDecodeError", "Expecting value", "", {}))

\* a parser that answers an empty dict where the decoder fails
ParsedOrEmptyDict(parsed) ==
  IF parsed.ok THEN parsed ELSE Ok(LoadDocument([EmptyDoc EXCEPT !.kind = "object"]))

\* lines 389-405: the decoded value, or the decoder's error wrapped
ParsedOrMalformed(parsed) ==
  IF parsed.ok THEN parsed
  ELSE Raise(Exc("ValueError", "Resposta da IA não está em formato JSON válido",
                 parsed.exc.type, {}))

parse_gemini_response(response_text) ==
  ParsedOrMalformed(json_loads(JsonText(response_text)))

\* ------------------------------------------------------------------ text extraction

\* A document is readable or not, and has the texts of its pages.
Pdf(readable, pages) == [readable |-> readable, pages |-> pages]

RECURSIVE PagesText(_)
PagesText(pages) ==
  IF Len(pages) = 0 THEN <<>>
  ELSE Head(pages) \o <<"\n">> \o PagesText(Tail(pages))

\* lines 184-192, given text.strip()
StrippedOrEmpty(stripped) ==
  IF Len(stripped) = 0
  THEN Raise(Exc("ValueError", "Não foi possível extrair texto do PDF", "", {}))
  ELSE Ok(stripped)

extract_text_from_pdf(pdf_content) ==
  IF ~pdf_content.readable
  THEN Raise(Exc("PdfReadError", "EOF marker not found", "", {}))
  ELSE StrippedOrEmpty(Strip(PagesText(pdf_content.pages)))

\* the prompt embeds the text of the document between fixed instructions
build_extraction_prompt(pdf_text) ==
  [instructions |-> "CAMPOS OBRIGATÓRIOS PARA EXTRAÇÃO", texto |-> pdf_text]

\* ------------------------------------------------------------------ orchestrator

\* ProcessamentoPDFResponseSchema
ProcessamentoPDFResponse(sucesso, dados, erro, tempo) ==
  [sucesso |-> sucesso, dados_extraidos |-> dados, erro |-> erro,
   tempo_processamento |-> tempo]

\* str(e)
StrOf(e) == [msg |-> e.msg, locs |-> e.locs]

\* the except clause written "except ValueError": any other exception leaves
\* process_pdf
ExceptValueErrorOnly(e, tempo_processamento) ==
  IF e.type = "ValueError"
  THEN [resultado |-> Some(ProcessamentoPDFResponse(FALSE, None, Some(StrOf(e)),
                                                    tempo_processamento)),
        escaped |-> NoExc]
  ELSE [resultado |-> None, escaped |-> e]

\* lines 228-236: what the except clause of process_pdf does with an exception
\* raised by a stage
ExceptClause(e, tempo_processamento) ==
  [resultado |-> Some(ProcessamentoPDFResponse(FALSE, None, Some(StrOf(e)),
                                               tempo_processamento)),
   escaped |-> NoExc]

\* lines 220-226
SuccessResponse(dados, tempo_processamento) ==
  ProcessamentoPDFResponse(TRUE, Some(dados), None, tempo_processamento)

\* the operands of the subtraction exchanged
ElapsedReversed(time, start) == start - time

\* time.time() - start_time
Elapsed(time, start) == time - start

\* ------------------------------------------------------------------ inputs

\* a well-formed answer of the model: one installment, amounts as strings
BaseDoc(descricao) ==
  [kind |-> "object",
   numero_nota_fiscal |-> JStr(<<"0","0","0","1","2","3">>),
   data_emissao |-> JStr(<<"2","0","2","4","-","0","3","-","1","5">>),
   descricao_produtos |-> JStr(descricao),
   valor_total |-> JStr(<<"1","2","3","4",".","5","0">>),
   fornecedor |-> [t |-> "object",
                   razao_social |-> JStr(<<"A","G","R","O"," ","L","T","D","A">>),
                   nome_fantasia |-> JNull,
                   cnpj |-> JStr(<<"1","2",".","3","4","5",".","6","7","8","/","0","0","0","1","-","9","0">>)],
   faturado |-> [t |-> "null", nome_completo |-> JMissing, cpf |-> JMissing],
   parcelas |-> [t |-> "array",
                 items |-> <<[numero_parcela |-> JNum(<<"1">>),
                              data_vencimento |-> JStr(<<"2","0","2","4","-","0","3","-","1","5">>),
                              valor_parcela |-> JStr(<<"1","2","3","4",".","5","0">>)]>>],
   quantidade_parcelas |-> JNum(<<"1">>),
   classificacoes_despesa |-> <<>>,
   confianca_geral |-> JNum(<<"0",".","8","5">>),
   observacoes_ia |-> JStr(<<"o","k">>)]

\* a classification the model puts into its answer unasked
PayloadClassificacao ==
  ClassificacaoDespesa("INVESTIMENTOS",
                       [label |-> "Trator novo", keywords |-> <<>>],
                       Decimal(10000, 0 - 2, "float"),
                       Rat(99, 100))

SecondParcela ==
  [numero_parcela |-> JNum(<<"2">>),
   data_vencimento |-> JStr(<<"2","0","2","4","-","0","4","-","1","5">>),
   valor_parcela |-> JNum(<<"6","1","7",".","2","5">>)]

\* The ways an answer departs from BaseDoc: the field and the JSON value put
\* there (for a container, v.t tells absent, null or object).
Defect(f, v) == [f |-> f, v |-> v]
Defects ==
  <<Defect("data_emissao", JMissing),
    Defect("data_emissao", JNull),
    Defect("data_emissao", JStr(<<"2","0","2","4","-","3","-","5">>)),
    Defect("data_emissao", JStr(<<"1","5","/","0","3","/","2","0","2","4">>)),
    Defect("data_emissao", JStr(<<"2","0","2","4","-","0","2","-","3","0">>)),
    Defect("descricao_produtos", JMissing),
    Defect("valor_total", JMissing),
    Defect("valor_total", JStr(<<"a","b","c">>)),
    Defect("valor_total", JStr(<<"0",".","0","0">>)),
    Defect("valor_total", JNum(<<"1","2","3","4",".","5","0">>)),
    Defect("valor_total", JNum(<<"-","5">>)),
    Defect("valor_total", JNum(<<"1","0","0">>)),
    Defect("fornecedor", JMissing),
    Defect("fornecedor.razao_social", JMissing),
    Defect("fornecedor.cnpj", JMissing),
    Defect("fornecedor.cnpj", JNull),
    Defect("faturado", JStr(<<"o","b","j","e","c","t">>)),
    Defect("parcelas", JMissing),
    Defect("parcelas", JNull),
    Defect("parcelas.clear", JNull),
    Defect("parcelas.append", JNull),
    Defect("parcela.data_vencimento", JMissing),
    Defect("parcela.data_vencimento", JStr(<<"2","0","2","4","-","4","-","1">>)),
    Defect("parcela.data_vencimento", JStr(<<"a","b","c">>)),
    Defect("parcela.valor_parcela", JStr(<<"-","5",".","0","0">>)),
    Defect("parcela.valor_parcela", JStr(<<"1",".","2","3","4",",","5","0">>)),
    Defect("parcela.valor_parcela", JNum(<<"1","2","3","4",".","5","0">>)),
    Defect("quantidade_parcelas", JMissing),
    Defect("quantidade_parcelas", JNum(<<"3">>)),
    Defect("confianca_geral", JMissing),
    Defect("fornecedor.cnpj", JStr(<<"1","2","3","4","5","6","7","8","0","0","0","1","9","0">>)),
    Defect("faturado.cpf", JStr(<<"1","2","3","4","5","6","7","8","9","0","9">>)),
    Defect("descricao_produtos", JStr(<<>>)),
    Defect("classificacoes_despesa", JNull)>>

TopLevelScalars ==
  {"numero_nota_fiscal", "data_emissao", "descricao_produtos", "valor_total",
   "quantidade_parcelas", "confianca_geral", "observacoes_ia"}

ApplyDefect(doc, d) ==
  IF d.f \in TopLevelScalars THEN [doc EXCEPT ![d.f] = d.v]
  ELSE IF d.f = "fornecedor" THEN [doc EXCEPT !.fornecedor.t = d.v.t]
  ELSE IF d.f = "fornecedor.razao_social"
  THEN [doc EXCEPT !.fornecedor.razao_social = d.v]
  ELSE IF d.f = "fornecedor.cnpj" THEN [doc EXCEPT !.fornecedor.cnpj = d.v]
  ELSE IF d.f = "faturado"
  THEN [doc EXCEPT !.faturado = [t |-> "object",
                                 nome_completo |-> JStr(<<"A","N","A"," ","S","I","L","V","A">>),
                                 cpf |-> JStr(<<"1","2","3",".","4","5","6",".","7","8","9","-","0","9">>)]]
  ELSE IF d.f = "classificacoes_despesa"
  THEN [doc EXCEPT !.classificacoes_despesa = <<PayloadClassificacao>>]
  ELSE IF d.f = "faturado.cpf"
  THEN [doc EXCEPT !.faturado = [t |-> "object",
                                 nome_completo |-> JStr(<<"A","N","A"," ","S","I","L","V","A">>),
                                 cpf |-> d.v]]
  ELSE IF d.f = "parcelas"
  THEN [doc EXCEPT !.parcelas = [t |-> d.v.t, items |-> <<>>]]
  ELSE IF d.f = "parcelas.clear" THEN [doc EXCEPT !.parcelas.items = <<>>]
  ELSE IF d.f = "parcelas.append"
  THEN (IF doc.parcelas.t = "array"
        THEN [doc EXCEPT !.parcelas.items = Append(@, SecondParcela)]
        ELSE doc)
  ELSE IF Len(doc.parcelas.items) = 0 THEN doc
  ELSE IF d.f = "parcela.data_vencimento"
  THEN [doc EXCEPT !.parcelas.items[1].data_vencimento = d.v]
  ELSE [doc EXCEPT !.parcelas.items[1].valor_parcela = d.v]

\* the defects numbered in ds applied to doc in the order of Defects
RECURSIVE ApplyDefects(_, _, _)
ApplyDefects(doc, ds, i) ==
  IF i > Len(Defects) THEN doc
  ELSE ApplyDefects(IF i \in ds THEN ApplyDefect(doc, Defects[i]) ELSE doc, ds, i + 1)

\* the subsets of S with at most n elements
RECURSIVE SubsetsUpTo(_, _)
SubsetsUpTo(S, n) ==
  IF n = 0 THEN {{}}
  ELSE UNION {{ds} \cup {ds \cup {x} : x \in S} : ds \in SubsetsUpTo(S, n - 1)}

DefectSets == SubsetsUpTo(1..Len(Defects), MaxDefects)

DieselDoc == BaseDoc(Lexicon[5])
MixedDoc == BaseDoc(JoinPhrases(<<Lexicon[1], Lexicon[2]>>))
ArrayDoc == [EmptyDoc EXCEPT !.kind = "array"]

\* the answers the model gives in the runs of the whole pipeline
Responses ==
  {<<>>,
   <<Blank>>,
   <<Prose("Here is the data:"), Blank, Prose("{invalid json")>>,
   <<DocText(DieselDoc)>>,
   <<Fence, JsonTag, Newline, DocText(MixedDoc), Newline, Fence>>,
   <<Prose("Here is the data:"), Newline, Fence, Newline, DocText(DieselDoc),
     Newline, Fence, Newline, Prose("Hope this helps")>>,
   <<Fence, JsonTag, Blank, Prose("{invalid json"), Fence>>,
   <<DocText(ApplyDefects(DieselDoc, {7}, 1))>>,
   <<DocText(ApplyDefects(MixedDoc, {10, 21, 29}, 1))>>,
   <<DocText(ArrayDoc)>>,
   <<Fence, Prose("exemplo"), Fence, Newline, Fence, JsonTag, Newline,
     DocText(DieselDoc), Newline, Fence, Newline, Prose("fim")>>,
   <<DocText(ApplyDefects(MixedDoc, {34}, 1))>>}

\* the failures of the model call itself
GenerateErrors ==
  {Exc("ResourceExhausted", "429 quota exceeded", "", {}),
   Exc("TimeoutError", "", "", {})}

\* the documents handed to process_pdf
Pdfs ==
  {Pdf(FALSE, <<>>),
   Pdf(TRUE, <<>>),
   Pdf(TRUE, <<<<" ">>>>),
   Pdf(TRUE, <<Lexicon[6]>>),
   Pdf(TRUE, <<Lexicon[5], Lexicon[3]>>),
   Pdf(TRUE, <<Lexicon[7]>>)}

\* ------------------------------------------------------------------ state

VARIABLES
  pc,               \* the stage process_pdf executes next
  pdf_content,      \* the document passed to process_pdf
  start_time,       \* process_pdf's start_time
  now,              \* the reading of time.time()
  pdf_text,         \* the text extracted from the document
  prompt,           \* the prompt sent to the model
  response_text,    \* response.text
  extracted_data,   \* the dict decoded from the answer
  dados_extraidos,  \* the validated record
  confidences,      \* the confidence the classifier logged for each category
  failure,          \* the exception a stage raised
  resultado,        \* what process_pdf returned
  escaped,          \* an exception that left process_pdf
  ran,              \* the stages executed so far, in order
  self_classification_rules,  \* the rule table of the service
  calls,            \* the locals of each process_pdf call running on the service
  suppliers,        \* the rows of table suppliers
  billed_people,    \* the rows of table billed_people
  requests          \* the calls made on the people services, with their results

vars == <<pc, pdf_content, start_time, now, pdf_text, prompt, response_text,
          extracted_data, dados_extraidos, confidences, failure, resultado,
          escaped, ran, self_classification_rules, calls,
          suppliers, billed_people, requests>>

people == <<suppliers, billed_people, requests>>

\* empty tables and no call on the people services
NoPeople ==
  /\ suppliers = <<>>
  /\ billed_people = <<>>
  /\ requests = <<>>

NoPrompt == [instructions |-> "", texto |-> <<>>]

\* before process_pdf is called
Init ==
  /\ pc = "idle"
  /\ pdf_content \in Pdfs
  /\ start_time = 0
  /\ now = 0
  /\ pdf_text = <<>>
  /\ prompt = NoPrompt
  /\ response_text = <<>>
  /\ extracted_data = None
  /\ dados_extraidos = None
  /\ confidences = <<>>
  /\ failure = NoExc
  /\ resultado = None
  /\ escaped = NoExc
  /\ ran = <<>>
  /\ self_classification_rules = classification_rules
  /\ calls = <<>>
  /\ NoPeople

\* the answers that decode: the well-formed answer with at most MaxDefects
\* departures, and an answer that is a JSON array
ValidateResponses ==
  {<<DocText(ApplyDefects(DieselDoc, ds, 1))>> : ds \in DefectSets}
  \cup {<<DocText(ArrayDoc)>>}

\* the model has answered: _process_with_gemini is about to parse
InitValidate ==
  /\ pc = "parse"
  /\ pdf_content = Pdf(TRUE, <<Lexicon[5]>>)
  /\ start_time = 0
  /\ now = 0
  /\ pdf_text = Lexicon[5]
  /\ prompt = build_extraction_prompt(Lexicon[5])
  /\ response_text \in ValidateResponses
  /\ extracted_data = None
  /\ dados_extraidos = None
  /\ confidences = <<>>
  /\ failure = NoExc
  /\ resultado = None
  /\ escaped = NoExc
  /\ ran = <<"extract", "prompt", "generate">>
  /\ self_classification_rules = classification_rules
  /\ calls = <<>>
  /\ NoPeople

\* the state in which process_pdf is about to classify the record the
\* validator made of a well-formed answer with description desc, for the
\* document text texto
ClassifyInputs(desc, texto) ==
  /\ pdf_content = Pdf(TRUE, IF Len(texto) = 0 THEN <<>> ELSE <<texto>>)
  /\ pdf_text = texto
  /\ prompt = build_extraction_prompt(texto)
  /\ response_text = <<DocText(BaseDoc(desc))>>
  /\ extracted_data = Some(LoadDocument(BaseDoc(desc)))
  /\ dados_extraidos = Some(validate_and_structure_data(LoadDocument(BaseDoc(desc))).val)

\* a validated record and a full text: process_pdf is about to classify
InitClassify ==
  /\ pc = "classify"
  /\ \E d \in SeqsUpTo(LexiconPhrases, MaxPhrases),
        t \in SeqsUpTo(LexiconPhrases, MaxPhrases) :
        /\ Len(d) + Len(t) <= MaxPhrases
        /\ ClassifyInputs(JoinPhrases(d), JoinPhrases(t))
  /\ start_time = 0
  /\ now = 0
  /\ confidences = <<>>
  /\ failure = NoExc
  /\ resultado = None
  /\ escaped = NoExc
  /\ ran = <<"extract", "prompt", "generate", "parse", "validate">>
  /\ self_classification_rules = classification_rules
  /\ calls = <<>>
  /\ NoPeople

\* ------------------------------------------------------------------ actions

\* an extraction whose exception is logged and not re-raised: the pipeline
\* goes on to build the prompt
ExtractionSwallowed(e) ==
  /\ failure' = e
  /\ pc' = IF pc = "extract" THEN "prompt" ELSE "except"

\* a model call that is made a second time after its first failure
GenerateRetried(e) ==
  /\ failure' = e
  /\ pc' = IF pc = "generate" /\ ~InList("generate", ran) THEN "generate" ELSE "except"

\* a stage raised e: control goes to the except clause of process_pdf
Fails(e) ==
  /\ failure' = e
  /\ pc' = "except"

\* process_pdf is called (line 202)
ProcessPdf ==
  /\ pc = "idle"
  /\ start_time' = now
  /\ pc' = "extract"
  /\ UNCHANGED <<self_classification_rules, calls, people>>
  /\ UNCHANGED <<pdf_content, now, pdf_text, prompt, response_text,
                 extracted_data, dados_extraidos, confidences, failure,
                 resultado, escaped, ran>>

Extracted(r) ==
  IF r.ok
  THEN pdf_text' = r.val /\ pc' = "prompt" /\ UNCHANGED failure
  ELSE Fails(r.exc) /\ UNCHANGED pdf_text

\* line 212
ExtractText ==
  /\ pc = "extract"
  /\ ran' = Append(ran, "extract")
  /\ Extracted(extract_text_from_pdf(pdf_content))
  /\ UNCHANGED <<self_classification_rules, calls, people>>
  /\ UNCHANGED <<pdf_content, start_time, now, prompt, response_text,
                 extracted_data, dados_extraidos, confidences, resultado, escaped>>

\* line 241
BuildPrompt ==
  /\ pc = "prompt"
  /\ ran' = Append(ran, "prompt")
  /\ prompt' = build_extraction_prompt(pdf_text)
  /\ pc' = "generate"
  /\ UNCHANGED <<self_classification_rules, calls, people>>
  /\ UNCHANGED <<pdf_content, start_time, now, pdf_text, response_text,
                 extracted_data, dados_extraidos, confidences, failure,
                 resultado, escaped>>

\* lines 249-252: the model answers, or the call fails, or the answer is empty
Generate ==
  /\ pc = "generate"
  /\ ran' = Append(ran, "generate")
  /\ \/ \E text \in Responses :
          IF Len(text) = 0
          THEN Fails(Exc("ValueError", "Resposta vazia da IA Gemini", "", {}))
               /\ UNCHANGED response_text
          ELSE response_text' = text /\ pc' = "parse" /\ UNCHANGED failure
     \/ \E e \in GenerateErrors : Fails(e) /\ UNCHANGED response_text
  /\ UNCHANGED <<self_classification_rules, calls, people>>
  /\ UNCHANGED <<pdf_content, start_time, now, pdf_text, prompt,
                 extracted_data, dados_extraidos, confidences, resultado, escaped>>

Parsed(r) ==
  IF r.ok
  THEN extracted_data' = Some(r.val) /\ pc' = "validate" /\ UNCHANGED failure
  ELSE Fails(r.exc) /\ UNCHANGED extracted_data

\* line 260
Parse ==
  /\ pc = "parse"
  /\ ran' = Append(ran, "parse")
  /\ Parsed(parse_gemini_response(response_text))
  /\ UNCHANGED <<self_classification_rules, calls, people>>
  /\ UNCHANGED <<pdf_content, start_time, now, pdf_text, prompt, response_text,
                 dados_extraidos, confidences, resultado, escaped>>

Validated(r) ==
  IF r.ok
  THEN dados_extraidos' = Some(r.val) /\ pc' = "classify" /\ UNCHANGED failure
  ELSE Fails(r.exc) /\ UNCHANGED dados_extraidos

\* line 269
Validate ==
  /\ pc = "validate"
  /\ ran' = Append(ran, "validate")
  /\ Validated(validate_and_structure_data(extracted_data[1]))
  /\ UNCHANGED <<self_classification_rules, calls, people>>
  /\ UNCHANGED <<pdf_content, start_time, now, pdf_text, prompt, response_text,
                 extracted_data, confidences, resultado, escaped>>

ClassifiedAs(r) ==
  /\ confidences' = r.confidences
  /\ IF r.ok
     THEN dados_extraidos' = Some(r.val) /\ pc' = "package" /\ UNCHANGED failure
     ELSE Fails(r.exc) /\ UNCHANGED dados_extraidos

\* line 218
Classify ==
  /\ pc = "classify"
  /\ ran' = Append(ran, "classify")
  /\ ClassifiedAs(apply_automatic_classification(self_classification_rules,
                                                 dados_extraidos[1], pdf_text))
  /\ UNCHANGED <<self_classification_rules, calls, people>>
  /\ UNCHANGED <<pdf_content, start_time, now, pdf_text, prompt, response_text,
                 extracted_data, resultado, escaped>>

\* lines 220-226
ReturnSuccess ==
  /\ pc = "package"
  /\ ran' = Append(ran, "package")
  /\ resultado' = Some(SuccessResponse(dados_extraidos[1], Elapsed(now, start_time)))
  /\ pc' = "done"
  /\ UNCHANGED <<self_classification_rules, calls, people>>
  /\ UNCHANGED <<pdf_content, start_time, now, pdf_text, prompt, response_text,
                 extracted_data, dados_extraidos, confidences, failure, escaped>>

Handled(h) ==
  /\ resultado' = h.resultado
  /\ escaped' = h.escaped

\* lines 228-236
ReturnFailure ==
  /\ pc = "except"
  /\ Handled(ExceptClause(failure, Elapsed(now, start_time)))
  /\ pc' = "done"
  /\ UNCHANGED <<self_classification_rules, calls, people>>
  /\ UNCHANGED <<pdf_content, start_time, now, pdf_text, prompt, response_text,
                 extracted_data, dados_extraidos, confidences, failure, ran>>

\* time passes while process_pdf runs
Tick ==
  /\ pc /= "done"
  /\ now < MaxClock
  /\ now' = now + 1
  /\ UNCHANGED <<self_classification_rules, calls, people>>
  /\ UNCHANGED <<pc, pdf_content, start_time, pdf_text, prompt, response_text,
                 extracted_data, dados_extraidos, confidences, failure,
                 resultado, escaped, ran>>

Next ==
  \/ ProcessPdf
  \/ ExtractText
  \/ BuildPrompt
  \/ Generate
  \/ Parse
  \/ Validate
  \/ Classify
  \/ ReturnSuccess
  \/ ReturnFailure
  \/ Tick

Spec == Init /\ [][Next]_vars

NextValidate == Parse \/ Validate
SpecValidate == InitValidate /\ [][NextValidate]_vars

NextClassify == Classify
SpecClassify == InitClassify /\ [][NextClassify]_vars

\* ------------------------------------------------------------------ concurrent calls

\* The locals of one process_pdf call: the document, the outcome its model
\* call will have (answer), and what the stages have produced so far.
NewCall(pdf, answer) ==
  [pc |-> "extract", pdf_content |-> pdf, answer |-> answer,
   pdf_text |-> <<>>, prompt |-> NoPrompt, response_text |-> <<>>,
   extracted_data |-> None, dados_extraidos |-> None,
   failure |-> NoExc, resultado |-> None]

\* the documents processed concurrently, each with the outcome of its model call
CallInputs ==
  <<NewCall(Pdf(TRUE, <<Lexicon[5]>>), Ok(<<DocText(DieselDoc)>>)),
    NewCall(Pdf(TRUE, <<Lexicon[7], Lexicon[2]>>),
            Ok(<<Fence, JsonTag, Newline, DocText(BaseDoc(Lexicon[7])), Newline, Fence>>)),
    NewCall(Pdf(FALSE, <<>>), Ok(<<DocText(DieselDoc)>>)),
    NewCall(Pdf(TRUE, <<Lexicon[3]>>),
            Ok(<<Prose("Here is the data:"), Blank, Prose("{invalid json")>>)),
    NewCall(Pdf(TRUE, <<Lexicon[2]>>),
            Raise(Exc("ResourceExhausted", "429 quota exceeded", "", {}))),
    NewCall(Pdf(TRUE, <<Lexicon[6]>>),
            Ok(<<DocText(ApplyDefects(BaseDoc(Lexicon[6]), {7}, 1))>>))>>

\* a stage of the call raised e
CallFails(call, e) == [call EXCEPT !.failure = e, !.pc = "except"]

\* line 212
CallExtracted(call, r) ==
  IF r.ok THEN [call EXCEPT !.pdf_text = r.val, !.pc = "prompt"]
  ELSE CallFails(call, r.exc)

\* lines 249-252
CallGenerated(call) ==
  IF ~call.answer.ok THEN CallFails(call, call.answer.exc)
  ELSE IF Len(call.answer.val) = 0
  THEN CallFails(call, Exc("ValueError", "Resposta vazia da IA Gemini", "", {}))
  ELSE [call EXCEPT !.response_text = call.answer.val, !.pc = "parse"]

\* line 260
CallParsed(call, r) ==
  IF r.ok THEN [call EXCEPT !.extracted_data = Some(r.val), !.pc = "validate"]
  ELSE CallFails(call, r.exc)

\* line 269
CallValidated(call, r) ==
  IF r.ok THEN [call EXCEPT !.dados_extraidos = Some(r.val), !.pc = "classify"]
  ELSE CallFails(call, r.exc)

\* line 218
CallClassified(call, r) ==
  IF r.ok THEN [call EXCEPT !.dados_extraidos = Some(r.val), !.pc = "package"]
  ELSE CallFails(call, r.exc)

\* the next stage of a call, run on the service whose rule table is rules;
\* the elapsed time is left out of the results of concurrent calls
StageOf(call, rules) ==
  CASE call.pc = "extract" ->
         CallExtracted(call, extract_text_from_pdf(call.pdf_content))
    [] call.pc = "prompt" ->
         [call EXCEPT !.prompt = build_extraction_prompt(call.pdf_text),
                      !.pc = "generate"]
    [] call.pc = "generate" -> CallGenerated(call)
    [] call.pc = "parse" ->
         CallParsed(call, parse_gemini_response(call.response_text))
    [] call.pc = "validate" ->
         CallValidated(call, validate_and_structure_data(call.extracted_data[1]))
    [] call.pc = "classify" ->
         CallClassified(call,
                        apply_automatic_classification(rules, call.dados_extraidos[1],
                                                       call.pdf_text))
    [] call.pc = "package" ->
         [call EXCEPT !.resultado = Some(SuccessResponse(call.dados_extraidos[1], 0)),
                      !.pc = "done"]
    [] call.pc = "except" ->
         [call EXCEPT !.resultado = ExceptClause(call.failure, 0).resultado,
                      !.pc = "done"]

\* a classifier that drops the category it looked at first from the table
RulesConsumed(stage, rules) == IF stage = "classify" THEN Tail(rules) ELSE rules

\* the rule table after a stage: no stage assigns self.classification_rules
\* or changes a keyword list (the table is written in __init__ only)
RulesAfter(stage, rules) == rules

\* call c runs its next stage
CallStep(c) ==
  /\ calls[c].pc /= "done"
  /\ calls' = [calls EXCEPT ![c] = StageOf(calls[c], self_classification_rules)]
  /\ self_classification_rules' = RulesAfter(calls[c].pc, self_classification_rules)
  /\ UNCHANGED <<pc, pdf_content, start_time, now, pdf_text, prompt, response_text,
                 extracted_data, dados_extraidos, confidences, failure, resultado,
                 escaped, ran>>
  /\ UNCHANGED people

\* MaxCalls calls on different documents have been made on one service
InitConcurrent ==
  /\ pc = "idle"
  /\ pdf_content = Pdf(FALSE, <<>>)
  /\ start_time = 0
  /\ now = 0
  /\ pdf_text = <<>>
  /\ prompt = NoPrompt
  /\ response_text = <<>>
  /\ extracted_data = None
  /\ dados_extraidos = None
  /\ confidences = <<>>
  /\ failure = NoExc
  /\ resultado = None
  /\ escaped = NoExc
  /\ ran = <<>>
  /\ self_classification_rules = classification_rules
  /\ \E ix \in [1..MaxCalls -> 1..Len(CallInputs)] :
       /\ \A a \in 1..MaxCalls : \A b \in 1..MaxCalls : a < b => ix[a] < ix[b]
       /\ calls = [c \in 1..MaxCalls |-> CallInputs[ix[c]]]
  /\ NoPeople

NextConcurrent == \E c \in 1..MaxCalls : CallStep(c)
SpecConcurrent == InitConcurrent /\ [][NextConcurrent]_vars

\* what process_pdf returns for a call that runs alone on a service with the
\* rule table of _setup_classification_rules
AloneFailed(e) == ExceptClause(e, 0).resultado
AloneClassified(r) ==
  IF r.ok THEN Some(SuccessResponse(r.val, 0)) ELSE AloneFailed(r.exc)
AloneValidated(texto, r) ==
  IF r.ok
  THEN AloneClassified(apply_automatic_classification(classification_rules, r.val, texto))
  ELSE AloneFailed(r.exc)
AloneParsed(texto, r) ==
  IF r.ok THEN AloneValidated(texto, validate_and_structure_data(r.val))
  ELSE AloneFailed(r.exc)
AloneGenerated(texto, answer) ==
  IF ~answer.ok THEN AloneFailed(answer.exc)
  ELSE IF Len(answer.val) = 0
  THEN AloneFailed(Exc("ValueError", "Resposta vazia da IA Gemini", "", {}))
  ELSE AloneParsed(texto, parse_gemini_response(answer.val))
AloneExtracted(r, answer) ==
  IF r.ok THEN AloneGenerated(r.val, answer) ELSE AloneFailed(r.exc)
RunAlone(pdf, answer) == AloneExtracted(extract_text_from_pdf(pdf), answer)

\* ------------------------------------------------------------------ people

\* the calls of one run of the supplier service
MaxOps == 3

TaxIds == {"12.345.678/0001-90", "98.765.432/0001-10"}

\* models/base.py 19-25: id = uuid4(), active = True
Supplier(id, tax_id, company_name) ==
  [id |-> id, tax_id |-> tax_id, company_name |-> company_name, active |-> TRUE]

BilledPerson(id, document_id, full_name) ==
  [id |-> id, document_id |-> document_id, full_name |-> full_name, active |-> TRUE]

\* uuid.uuid4(): an id no row of the table has
NewId(table) == Len(table) + 1

\* query.first()
FirstOf(table, matching) ==
  IF matching = {} THEN None
  ELSE Some(table[CHOOSE i \in matching : \A k \in matching : i <= k])

\* repositories/people.py 23-30
get_by_tax_id(table, tax_id) ==
  FirstOf(table, {i \in 1..Len(table) : table[i].tax_id = tax_id /\ table[i].active})

\* repositories/people.py 161-168
get_by_document_id(table, document_id) ==
  FirstOf(table, {i \in 1..Len(table) :
                    table[i].document_id = document_id /\ table[i].active})

\* repositories/base.py 35-42
get_by_id(table, id, include_inactive) ==
  FirstOf(table, {i \in 1..Len(table) :
                    table[i].id = id /\ (include_inactive \/ table[i].active)})

\* the unique index on suppliers.tax_id (models/people.py 22): another row,
\* active or not, holds the tax id
TaxIdTaken(table, id, tax_id) ==
  \E i \in 1..Len(table) : table[i].tax_id = tax_id /\ table[i].id /= id

\* the unique index on billed_people.document_id (models/people.py 76)
DocumentIdTaken(table, id, document_id) ==
  \E i \in 1..Len(table) : table[i].document_id = document_id /\ table[i].id /= id

IntegrityError ==
  Exc("IntegrityError", "duplicate key value violates unique constraint", "", {})

DuplicateError(resource_type, field) ==
  Exc("DuplicateError", "Já existe " \o resource_type \o " com " \o field, "", {})

\* what a call leaves: the table and what it returned or raised
Done(table, result) == [table |-> table, result |-> result]

\* repositories/base.py 27-33: add, commit, refresh; taken says that the
\* unique index rejects the row at commit
BaseRepository_create(table, row, taken) ==
  IF taken THEN Done(table, Raise(IntegrityError))
  ELSE Done(Append(table, row), Ok(row))

\* agent/people.py 29-36, given what get_by_tax_id found
CreateAfterLookup(table, existing_supplier, tax_id, company_name) ==
  IF existing_supplier /= None
  THEN Done(table, Raise(DuplicateError("Fornecedor", "CNPJ")))
  ELSE BaseRepository_create(table, Supplier(NewId(table), tax_id, company_name),
                             TaxIdTaken(table, NewId(table), tax_id))

SupplierService_create(table, tax_id, company_name) ==
  CreateAfterLookup(table, get_by_tax_id(table, tax_id), tax_id, company_name)

\* row id of the table replaced by its updated version
WithRow(table, row) ==
  [i \in 1..Len(table) |-> IF table[i].id = row.id THEN row ELSE table[i]]

\* repositories/base.py 78-90 for update_data = {"tax_id": tax_id}
BaseRepository_update(table, db_obj, tax_id) ==
  IF TaxIdTaken(table, db_obj.id, tax_id)
  THEN Done(table, Raise(IntegrityError))
  ELSE Done(WithRow(table, [db_obj EXCEPT !.tax_id = tax_id]),
            Ok(Some([db_obj EXCEPT !.tax_id = tax_id])))

\* agent/people.py 69-75, for the supplier found by id
UpdateFound(table, supplier, existing_supplier, tax_id) ==
  IF /\ tax_id /= supplier.tax_id
     /\ existing_supplier /= None
     /\ existing_supplier[1].id /= supplier.id
  THEN Done(table, Raise(DuplicateError("Fornecedor", "CNPJ")))
  ELSE BaseRepository_update(table, supplier, tax_id)

\* agent/people.py 62-75
UpdateAfterLookup(table, supplier, tax_id) ==
  IF supplier = None THEN Done(table, Ok(None))
  ELSE UpdateFound(table, supplier[1], get_by_tax_id(table, tax_id), tax_id)

SupplierService_update(table, supplier_id, tax_id) ==
  UpdateAfterLookup(table, get_by_id(table, supplier_id, FALSE), tax_id)

\* models/base.py 41-49 and repositories/base.py 92-110
SetActive(table, db_obj, active) ==
  IF db_obj = None THEN Done(table, Ok(FALSE))
  ELSE Done(WithRow(table, [db_obj[1] EXCEPT !.active = active]), Ok(TRUE))

soft_delete(table, id) == SetActive(table, get_by_id(table, id, FALSE), FALSE)

reactivate(table, id) == SetActive(table, get_by_id(table, id, TRUE), TRUE)

\* a finished call of the supplier service
Request(op, id, identifier, result) ==
  [op |-> op, id |-> id, identifier |-> identifier, pc |-> "done", result |-> result]

Served(op, id, tax_id, done) ==
  /\ Len(requests) < MaxOps
  /\ suppliers' = done.table
  /\ requests' = Append(requests, Request(op, id, tax_id, done.result))
  /\ UNCHANGED billed_people
  /\ UNCHANGED <<pc, pdf_content, start_time, now, pdf_text, prompt, response_text,
                 extracted_data, dados_extraidos, confidences, failure, resultado,
                 escaped, ran, self_classification_rules, calls>>

SupplierCreate(tax_id) ==
  Served("create", 0, tax_id, SupplierService_create(suppliers, tax_id, "Agro Ltda"))

SupplierUpdate(id, tax_id) ==
  Served("update", id, tax_id, SupplierService_update(suppliers, id, tax_id))

SupplierSoftDelete(id) ==
  Served("soft_delete", id, "", soft_delete(suppliers, id))

SupplierReactivate(id) ==
  Served("reactivate", id, "", reactivate(suppliers, id))

\* no document is being processed
PipelineIdle ==
  /\ pc = "idle"
  /\ pdf_content = Pdf(FALSE, <<>>)
  /\ start_time = 0
  /\ now = 0
  /\ pdf_text = <<>>
  /\ prompt = NoPrompt
  /\ response_text = <<>>
  /\ extracted_data = None
  /\ dados_extraidos = None
  /\ confidences = <<>>
  /\ failure = NoExc
  /\ resultado = None
  /\ escaped = NoExc
  /\ ran = <<>>
  /\ self_classification_rules = classification_rules
  /\ calls = <<>>

InitSuppliers == PipelineIdle /\ NoPeople

NextSuppliers ==
  \/ \E tax_id \in TaxIds : SupplierCreate(tax_id)
  \/ \E id \in 1..(Len(suppliers) + 1), tax_id \in TaxIds : SupplierUpdate(id, tax_id)
  \/ \E id \in 1..(Len(suppliers) + 1) : SupplierSoftDelete(id)
  \/ \E id \in 1..(Len(suppliers) + 1) : SupplierReactivate(id)

SpecSuppliers == InitSuppliers /\ [][NextSuppliers]_vars

\* ------------------------------------------------------------ get or create

DocumentIds == {"123.456.789-09", "987.654.321-00"}

\* a call of get_or_create that has not queried yet
Pending == Raise(NoExc)
GetOrCreate(op, identifier) ==
  [op |-> op, id |-> 0, identifier |-> identifier, pc |-> "query", result |-> Pending]

\* the calls two requests make at the same time, each on a session of its own
GetOrCreateCalls ==
  {GetOrCreate("get_or_create_by_tax_id", t) : t \in TaxIds}
  \cup {GetOrCreate("get_or_create_by_document_id", d) : d \in DocumentIds}

\* a row after soft_delete when active is FALSE
Stored(row, active) == [row EXCEPT !.active = active]

\* the tables left by earlier calls: empty, or one row, active or soft-deleted
StoredSuppliers ==
  {<<>>} \cup {<<Stored(Supplier(1, t, "Agro Ltda"), a)>> : t \in TaxIds, a \in BOOLEAN}
StoredBilledPeople ==
  {<<>>} \cup {<<Stored(BilledPerson(1, d, "João"), a)>> : d \in DocumentIds, a \in BOOLEAN}

\* the first statement of get_or_create: the row found is returned, or the
\* call goes on to create one
Looked(call, existing) ==
  IF existing /= None
  THEN [call EXCEPT !.pc = "done", !.result = Ok(existing[1])]
  ELSE [call EXCEPT !.pc = "create"]

Created(call, done) == [call EXCEPT !.pc = "done", !.result = done.result]

PipelineUnchanged ==
  UNCHANGED <<pc, pdf_content, start_time, now, pdf_text, prompt, response_text,
              extracted_data, dados_extraidos, confidences, failure, resultado,
              escaped, ran, self_classification_rules, calls>>

\* agent/people.py 91-93
SupplierLookup(c) ==
  /\ requests[c].op = "get_or_create_by_tax_id"
  /\ requests[c].pc = "query"
  /\ requests' = [requests EXCEPT
                    ![c] = Looked(@, get_by_tax_id(suppliers, requests[c].identifier))]
  /\ UNCHANGED <<suppliers, billed_people>>
  /\ PipelineUnchanged

SupplierInserted(c, done) ==
  /\ suppliers' = done.table
  /\ requests' = [requests EXCEPT ![c] = Created(@, done)]

\* agent/people.py 96-97
SupplierInsert(c) ==
  /\ requests[c].op = "get_or_create_by_tax_id"
  /\ requests[c].pc = "create"
  /\ SupplierInserted(c,
       BaseRepository_create(
         suppliers,
         Supplier(NewId(suppliers), requests[c].identifier, "Agro Ltda"),
         TaxIdTaken(suppliers, NewId(suppliers), requests[c].identifier)))
  /\ UNCHANGED billed_people
  /\ PipelineUnchanged

\* repositories/people.py 210-212
BilledPersonLookup(c) ==
  /\ requests[c].op = "get_or_create_by_document_id"
  /\ requests[c].pc = "query"
  /\ requests' = [requests EXCEPT
                    ![c] = Looked(@, get_by_document_id(billed_people,
                                                        requests[c].identifier))]
  /\ UNCHANGED <<suppliers, billed_people>>
  /\ PipelineUnchanged

BilledPersonInserted(c, done) ==
  /\ billed_people' = done.table
  /\ requests' = [requests EXCEPT ![c] = Created(@, done)]

\* repositories/people.py 215-220
BilledPersonInsert(c) ==
  /\ requests[c].op = "get_or_create_by_document_id"
  /\ requests[c].pc = "create"
  /\ BilledPersonInserted(c,
       BaseRepository_create(
         billed_people,
         BilledPerson(NewId(billed_people), requests[c].identifier, "João"),
         DocumentIdTaken(billed_people, NewId(billed_people), requests[c].identifier)))
  /\ UNCHANGED suppliers
  /\ PipelineUnchanged

InitGetOrCreate ==
  /\ PipelineIdle
  /\ suppliers \in StoredSuppliers
  /\ billed_people \in StoredBilledPeople
  /\ \E a \in GetOrCreateCalls, b \in GetOrCreateCalls : requests = <<a, b>>

NextGetOrCreate ==
  \E c \in {1, 2} :
    \/ SupplierLookup(c)
    \/ SupplierInsert(c)
    \/ BilledPersonLookup(c)
    \/ BilledPersonInsert(c)

SpecGetOrCreate == InitGetOrCreate /\ [][NextGetOrCreate]_vars

\* ------------------------------------------------------------------ properties

\* the stages of process_pdf in the order of its statements
StageOrder ==
  <<"extract", "prompt", "generate", "parse", "validate", "classify", "package">>

IsPrefix(s, t) == Len(s) <= Len(t) /\ \A i \in 1..Len(s) : s[i] = t[i]

\* the stage has started
Ran(stage) == \E i \in 1..Len(ran) : ran[i] = stage

\* the error _validate_and_structure_data raises
InvalidExtraction(e) == e.type = "ValueError" /\ e.msg = "Dados extraídos inválidos"

\* the error _parse_gemini_response raises
MalformedResponse(e) ==
  e.type = "ValueError" /\ e.msg = "Resposta da IA não está em formato JSON válido"

\* C1: whatever stage fails and whatever error it fails with, no exception
\* leaves process_pdf, and a finished call has returned a result that carries
\* a success flag.
C1_NeverReRaised ==
  /\ escaped = NoExc
  /\ pc = "done" => (resultado /= None /\ resultado[1].sucesso \in BOOLEAN)

\* a call that failed in the model call with an error that is no ValueError
\* has returned a failure result
C1_Witness ==
  /\ pc = "done"
  /\ failure.type = "ResourceExhausted"
  /\ resultado /= None
  /\ ~resultado[1].sucesso

\* the two shapes of ProcessamentoPDFResponseSchema that process_pdf builds
SuccessShape(r) == r.sucesso /\ r.dados_extraidos /= None /\ r.erro = None
FailureShape(r) == ~r.sucesso /\ r.erro /= None /\ r.dados_extraidos = None

Sorted(cs) ==
  \A i \in 1..(Len(cs) - 1) : RatGe(cs[i].confianca, cs[i + 1].confianca)

\* C3: for any validated record and any text, the classifier succeeds and the
\* list it leaves on the record is non-empty, has at most 3 entries and is
\* sorted by non-increasing confidence.
C3_ClassificationList ==
  Ran("classify") =>
    /\ failure = NoExc
    /\ Len(dados_extraidos[1].classificacoes_despesa) >= 1
    /\ Len(dados_extraidos[1].classificacoes_despesa) <= 3
    /\ Sorted(dados_extraidos[1].classificacoes_despesa)

\* more than three categories passed the threshold, out of confidence order in
\* the rule table, and three were left on the record
C3_Witness ==
  /\ Ran("classify")
  /\ Cardinality({i \in 1..Len(confidences) : AboveThreshold(confidences[i])}) > 3
  /\ \E i \in 1..(Len(confidences) - 1) :
       /\ AboveThreshold(confidences[i])
       /\ RatGt(confidences[i + 1], confidences[i])
  /\ Len(dados_extraidos[1].classificacoes_despesa) = 3

\* C4: for every text, every description and every keyword list of the rule
\* table, the confidence the scorer returns lies in [0, 1].
C4_ScoreInUnitInterval ==
  \A i \in 1..Len(confidences) :
    /\ confidences[i].den > 0
    /\ confidences[i].num >= 0
    /\ confidences[i].num <= confidences[i].den

\* the scorer capped a confidence at 1 (an uncapped confidence has the
\* denominator 100 * len(keywords)), and returned another strictly inside (0, 1)
C4_Witness ==
  /\ Ran("classify")
  /\ \E i \in 1..Len(confidences) : confidences[i] = Rat(1, 1)
  /\ \E i \in 1..Len(confidences) :
       confidences[i].num > 0 /\ confidences[i].num < confidences[i].den

\* a step in which a stage starts
C5_StageStarts ==
  /\ failure = NoExc
  /\ Len(ran) < Len(StageOrder)
  /\ ran' = Append(ran, StageOrder[Len(ran) + 1])
  /\ StageOrder[Len(ran) + 1] = "validate" => extracted_data /= None
  /\ StageOrder[Len(ran) + 1] = "classify" =>
       (dados_extraidos /= None /\ ran[Len(ran)] = "validate")

C5_Step ==
  /\ IsPrefix(ran', StageOrder)
  /\ ran' /= ran => C5_StageStarts
  /\ failure /= NoExc => (ran' = ran /\ failure' = failure)

\* C5: the stages run in the order extract, prompt, generate, parse, validate,
\* classify, package; a stage starts only when every earlier stage has run and
\* none has failed (the classifier only on a record the validator returned);
\* after a failure no stage starts.
C5_StageOrder == [][C5_Step]_vars

\* the validator failed, the classifier and the packaging never ran, and the
\* call has returned
C5_Witness ==
  /\ pc = "done"
  /\ failure /= NoExc
  /\ ran = <<"extract", "prompt", "generate", "parse", "validate">>

\* the answer holds the text of a JSON document
HasPayload(text) == \E i \in 1..Len(text) : text[i].k = "doc"

RequiredFields ==
  {<<"data_emissao">>, <<"descricao_produtos">>, <<"valor_total">>,
   <<"fornecedor">>, <<"fornecedor", "razao_social">>, <<"fornecedor", "cnpj">>,
   <<"parcelas">>, <<"quantidade_parcelas">>}

\* the decoded payload has no such key
LacksField(data, f) ==
  IF Len(f) = 2
  THEN data.fornecedor.t = "object" /\ data.fornecedor[f[2]].t = "missing"
  ELSE IF f[1] \in {"fornecedor", "parcelas"}
  THEN data[f[1]].t = "missing"
  ELSE data[f[1]].t = "missing"

\* the error message names the field
NamesField(e, f) == f \in e.locs

\* the exceptions of the conversions made before the schema check
ConversionErrors == {"ValueError", "InvalidOperation", "TypeError", "AttributeError"}

\* C7 as stated: validating a payload that lacks a required field fails with
\* the invalid-extraction error, which names the field, and makes no record.
C7_NamesMissingField ==
  \A f \in RequiredFields :
    (Ran("validate") /\ LacksField(extracted_data[1], f)) =>
      /\ InvalidExtraction(failure)
      /\ NamesField(failure, f)
      /\ dados_extraidos = None

\* C7: validating a payload that lacks a required field fails with the
\* invalid-extraction error and makes no record; the error names the field
\* when it comes from the schema check, and otherwise reports the conversion
\* of a date or an amount that failed before the schema check.
C7_MissingFieldRejected ==
  \A f \in RequiredFields :
    (Ran("validate") /\ LacksField(extracted_data[1], f)) =>
      /\ InvalidExtraction(failure)
      /\ dados_extraidos = None
      /\ failure.cause = "ValidationError" => NamesField(failure, f)
      /\ failure.cause /= "ValidationError" =>
           (failure.cause \in ConversionErrors /\ failure.locs = {})

\* a payload that lacks only the total was rejected by the schema check, with
\* an error that names valor_total
C7_Witness ==
  /\ Ran("validate")
  /\ LacksField(extracted_data[1], <<"valor_total">>)
  /\ InvalidExtraction(failure)
  /\ failure.locs = {<<"valor_total">>}
  /\ dados_extraidos = None

\* a date written YYYY-MM-DD: four, two and two digits, a day of the calendar
IsIsoDate(s) ==
  /\ Len(s) = 10
  /\ s[5] = "-" /\ s[8] = "-"
  /\ AllDigits(SubSeq(s, 1, 4) \o SubSeq(s, 6, 7) \o SubSeq(s, 9, 10))
  /\ DigitsValue(SubSeq(s, 1, 4)) >= 1
  /\ DigitsValue(SubSeq(s, 6, 7)) \in 1..12
  /\ DigitsValue(SubSeq(s, 9, 10)) >= 1
  /\ DigitsValue(SubSeq(s, 9, 10)) <=
       DaysInMonth(DigitsValue(SubSeq(s, 1, 4)), DigitsValue(SubSeq(s, 6, 7)))

\* the day part: one or two digits, or a blank and a digit
DayPart(s) ==
  \/ Len(s) \in {1, 2} /\ AllDigits(s)
  \/ Len(s) = 2 /\ s[1] = " " /\ IsDigit(s[2])
DayPartValue(s) == IF s[1] = " " THEN DigitVal(s[2]) ELSE DigitsValue(s)

\* a date written year-month-day with a four-digit year and a month and a day
\* of one or two digits (the day also as a blank and a digit), a day of the
\* calendar: 2024-03-05, 2024-3-5
IsDashedDate(s) ==
  \E m \in {1, 2} :
    /\ Len(s) >= 6 + m
    /\ AllDigits(SubSeq(s, 1, 4)) /\ DigitsValue(SubSeq(s, 1, 4)) >= 1
    /\ s[5] = "-"
    /\ AllDigits(SubSeq(s, 6, 5 + m))
    /\ DigitsValue(SubSeq(s, 6, 5 + m)) \in 1..12
    /\ s[6 + m] = "-"
    /\ DayPart(SubSeq(s, 7 + m, Len(s)))
    /\ DayPartValue(SubSeq(s, 7 + m, Len(s))) >= 1
    /\ DayPartValue(SubSeq(s, 7 + m, Len(s))) <=
         DaysInMonth(DigitsValue(SubSeq(s, 1, 4)), DigitsValue(SubSeq(s, 6, 5 + m)))

\* an amount of the payload that is no decimal numeral, or is not > 0
BadNumeral(p) == ~p.ok \/ p.coef <= 0
BadAmount(v) ==
  \/ v.t = "str" /\ BadNumeral(ParseNumeral(Strip(v.s)))
  \/ v.t \in {"int", "float"} /\ v.n <= 0

\* the defects of C8 other than the date's
OtherDefect(data) ==
  \/ BadAmount(data.valor_total)
  \/ \E i \in 1..Len(data.parcelas.items) : BadAmount(data.parcelas.items[i].valor_parcela)
  \/ data.parcelas.t = "array" /\ Len(data.parcelas.items) = 0
  \/ data.fornecedor.t = "object" /\ data.fornecedor.cnpj.t \in {"missing", "none"}

\* some date string of the payload fails the test
DateDefect(data, IsDate(_)) ==
  \/ data.data_emissao.t = "str" /\ ~IsDate(data.data_emissao.s)
  \/ \E i \in 1..Len(data.parcelas.items) :
       /\ data.parcelas.items[i].data_vencimento.t = "str"
       /\ ~IsDate(data.parcelas.items[i].data_vencimento.s)

\* C8 as stated: the validator fails with the invalid-extraction error and
\* returns no record for a payload with a date string that is not a
\* YYYY-MM-DD date, an amount that is no decimal or is not > 0, an empty
\* installment list or an absent supplier tax id.
C8_RejectsDefects ==
  (/\ Ran("validate")
   /\ DateDefect(extracted_data[1], IsIsoDate) \/ OtherDefect(extracted_data[1])) =>
    (InvalidExtraction(failure) /\ dados_extraidos = None)

\* C8: the same, for a date string that is no year-month-day date with a
\* four-digit year and a month and a day of one or two digits; a date
\* without the zero padding, such as 2024-3-5, is accepted.
C8_RejectsDefectsDashed ==
  (/\ Ran("validate")
   /\ DateDefect(extracted_data[1], IsDashedDate) \/ OtherDefect(extracted_data[1])) =>
    (InvalidExtraction(failure) /\ dados_extraidos = None)

\* the issue date 15/03/2024 was rejected by the conversion of the date
C8_Witness ==
  /\ Ran("validate")
  /\ extracted_data[1].data_emissao.t = "str"
  /\ ~IsDashedDate(extracted_data[1].data_emissao.s)
  /\ InvalidExtraction(failure)
  /\ failure.cause = "ValueError"
  /\ dados_extraidos = None

\* the numeral the payload carried for an amount
PayloadNumeral(j) == ParseNumeral(Strip(j.s))
ExactlyFrom(amount, j) ==
  /\ amount.from /= "float"
  /\ PayloadNumeral(j).ok
  /\ SameNumber(amount, Decimal(PayloadNumeral(j).coef, PayloadNumeral(j).exp, "payload"))

\* C9 as stated: every amount of a validated record is the exact decimal of the
\* numeral the payload carried, and none was made from a float.
C9_ExactAmounts ==
  (Ran("validate") /\ dados_extraidos /= None) =>
    /\ ExactlyFrom(dados_extraidos[1].valor_total, response_text[1].doc.valor_total)
    /\ \A i \in 1..Len(dados_extraidos[1].parcelas) :
         ExactlyFrom(dados_extraidos[1].parcelas[i].valor_parcela,
                     response_text[1].doc.parcelas.items[i].valor_parcela)

\* C10 as stated: in every record the validator returns, quantidade_parcelas
\* is the length of parcelas.
C10_CountIsLength ==
  (Ran("validate") /\ dados_extraidos /= None) =>
    dados_extraidos[1].quantidade_parcelas = Len(dados_extraidos[1].parcelas)

\* the classifications the classifier left on the record
Output == dados_extraidos[1].classificacoes_despesa

\* category i of the rule table is on the record as a kept category, with the
\* confidence the scorer gave it
KeptInOutput(i) ==
  \E j \in 1..Len(Output) :
    /\ Output[j].categoria = classification_rules[i].categoria
    /\ Output[j].descricao.label = classification_rules[i].categoria
    /\ Output[j].confianca = confidences[i]

\* the categories other than i that score at least as high as i and above 0.15
Rivals(i) ==
  {k \in (1..Len(confidences)) \ {i} :
     /\ RatGt(confidences[k], Rat(15, 100))
     /\ RatGe(confidences[k], confidences[i])}

\* C11: a category is kept exactly when its confidence is strictly greater
\* than 0.15: a category scoring 0.15 or less is never on the record as a kept
\* category, and a category scoring above 0.15 is on the record whenever fewer
\* than three other such categories score at least as high.
C11_StrictThreshold ==
  (Ran("classify") /\ failure = NoExc) =>
    \A i \in 1..Len(confidences) :
      /\ ~RatGt(confidences[i], Rat(15, 100)) => ~KeptInOutput(i)
      /\ (RatGt(confidences[i], Rat(15, 100)) /\ Cardinality(Rivals(i)) < 3)
           => KeptInOutput(i)

\* a category scored exactly 0.15 and was dropped, while another was kept
C11_Witness ==
  /\ Ran("classify")
  /\ failure = NoExc
  /\ \E i \in 1..Len(confidences) :
       /\ confidences[i].num * 100 = 15 * confidences[i].den
       /\ ~KeptInOutput(i)
  /\ \E k \in 1..Len(confidences) : KeptInOutput(k)

\* the entry flagged for manual review
IsFallback(c) ==
  /\ c.categoria = "ADMINISTRATIVAS"
  /\ c.confianca.num * 10 = 2 * c.confianca.den
  /\ c.descricao.label = "Classificação automática - Revisar manualmente"

NoneAboveThreshold ==
  \A i \in 1..Len(confidences) : ~RatGt(confidences[i], Rat(15, 100))

\* C12: when no category scores above 0.15 the record gets exactly one
\* classification, ADMINISTRATIVAS with confidence 0.2 and a description
\* flagged for manual review; when some category scores above 0.15 no entry
\* flagged for manual review is on the record.
C12_Fallback ==
  (Ran("classify") /\ failure = NoExc) =>
    IF NoneAboveThreshold
    THEN Len(Output) = 1 /\ IsFallback(Output[1])
    ELSE \A j \in 1..Len(Output) :
           Output[j].descricao.label /= "Classificação automática - Revisar manualmente"

\* a text with keywords of no category was classified: the fallback is the
\* only entry
C12_Witness ==
  /\ Ran("classify")
  /\ failure = NoExc
  /\ NoneAboveThreshold
  /\ Len(confidences) = Len(classification_rules)
  /\ Len(Output) = 1
  /\ IsFallback(Output[1])

\* the text holds a term of the fiscal list
FiscalTermsIn(texto) ==
  \E i \in 1..Len(fiscal_keywords) : Contains(texto, fiscal_keywords[i])

\* the confidence of lines 553-565 and 585 for in_texto keywords found in the
\* text only, with the penalty of lines 577-583 left out
UnpenalizedConfidence(in_texto, keywords) ==
  IF in_texto = 0 THEN Rat(0, 1)
  ELSE RatMin(Rat(in_texto * MultiBoost(in_texto) * DescBoost(0) * 10,
                  Len(keywords) * 100),
              Rat(1, 1))

\* confidence <= 0.2 * unpenalized
AtMostFifthOf(confidence, unpenalized) ==
  confidence.num * 5 * unpenalized.den <= unpenalized.num * confidence.den

\* the case of the fiscal suppression for category i: a fiscal category, a
\* product indicator in the description, fiscal terms in the text, and none of
\* the category's keywords in the description
SuppressionCase(i, texto_lower, descricao_lower) ==
  /\ is_fiscal_category(classification_rules[i].keywords)
  /\ has_product_description(descricao_lower)
  /\ FiscalTermsIn(texto_lower)
  /\ found_keywords_descricao(descricao_lower, classification_rules[i].keywords) = 0

SuppressedAt(i, texto_lower, descricao_lower) ==
  SuppressionCase(i, texto_lower, descricao_lower) =>
    AtMostFifthOf(confidences[i],
                  UnpenalizedConfidence(
                    found_keywords_texto(texto_lower, descricao_lower,
                                         classification_rules[i].keywords),
                    classification_rules[i].keywords))

Occurrences(s, sub) ==
  {p \in 0..(Len(s) - Len(sub)) : \A j \in 1..Len(sub) : s[p + j] = sub[j]}

\* s with the n characters after offset p cut out
Cut(s, p, n) == SubSeq(s, 1, p) \o SubSeq(s, p + n + 1, Len(s))

\* descriptions d and d2 hold the same keywords of the list, except keyword k,
\* which d holds and d2 does not
DifferInKeyword(keywords, k, d, d2) ==
  /\ Contains(d, keywords[k])
  /\ ~Contains(d2, keywords[k])
  /\ \A j \in (1..Len(keywords)) \ {k} :
       Contains(d, keywords[j]) <=> Contains(d2, keywords[j])

\* under the same text, the description d2 that lacks keyword k of category i
\* scores strictly less than the classified record's description d
WeighsMore(i, k, texto_lower, d, d2) ==
  DifferInKeyword(classification_rules[i].keywords, k, d, d2) =>
    RatGt(confidences[i],
          calculate_classification_confidence(texto_lower, d2,
                                              classification_rules[i].keywords))

DescriptionWeighting(texto_lower, descricao_lower) ==
  \A i \in 1..Len(confidences) :
    \A k \in 1..Len(classification_rules[i].keywords) :
      Contains(texto_lower, classification_rules[i].keywords[k]) =>
        \A p \in Occurrences(descricao_lower, classification_rules[i].keywords[k]) :
          WeighsMore(i, k, texto_lower, descricao_lower,
                     Cut(descricao_lower, p,
                         Len(classification_rules[i].keywords[k])))

\* C14: for the keyword list of a category and one text, a description that
\* holds a keyword of the text scores strictly higher than the description
\* that differs from it only in not holding that keyword.
C14_DescriptionWeighting ==
  Ran("classify") =>
    DescriptionWeighting(Lower(pdf_text), Lower(dados_extraidos[1].descricao_produtos))

\* C15: under any interleaving of the stages of concurrent process_pdf calls
\* on different documents, the rule table of the service stays as
\* _setup_classification_rules built it, and every call that has returned has
\* returned what it returns when it runs alone.
C15_CallsIndependent ==
  /\ self_classification_rules = classification_rules
  /\ \A c \in DOMAIN calls :
       calls[c].pc = "done" =>
         calls[c].resultado = RunAlone(calls[c].pdf_content, calls[c].answer)

\* two calls have returned, both with a classified record, and the two
\* classification lists differ
C15_Witness ==
  \E a \in DOMAIN calls : \E b \in DOMAIN calls :
    /\ a /= b
    /\ calls[a].pc = "done"
    /\ calls[b].pc = "done"
    /\ calls[a].resultado[1].sucesso
    /\ calls[b].resultado[1].sucesso
    /\ calls[a].resultado[1].dados_extraidos[1].classificacoes_despesa
         /= calls[b].resultado[1].dados_extraidos[1].classificacoes_despesa

\* the fields of a record other than its classifications
FrameOf(dados) ==
  [numero_nota_fiscal |-> dados.numero_nota_fiscal,
   data_emissao |-> dados.data_emissao,
   descricao_produtos |-> dados.descricao_produtos,
   valor_total |-> dados.valor_total,
   fornecedor |-> dados.fornecedor,
   faturado |-> dados.faturado,
   parcelas |-> dados.parcelas,
   quantidade_parcelas |-> dados.quantidade_parcelas,
   confianca_geral |-> dados.confianca_geral,
   observacoes_ia |-> dados.observacoes_ia]

\* a step of the classifier that leaves a record
C16_Step ==
  (pc = "classify" /\ pc' = "package") =>
    FrameOf(dados_extraidos'[1]) = FrameOf(dados_extraidos[1])

\* C16: the classifier changes only the classifications of the validated
\* record: invoice number, issue date, description, total, supplier, billed
\* party, installments, installment count, overall confidence and notes are
\* after the classifier what they were before it.
C16_OnlyClassifications == [][C16_Step]_vars

\* the classifier replaced the classifications of a record whose description
\* has upper-case letters, which it lowered to score
C16_Witness ==
  /\ Ran("classify")
  /\ failure = NoExc
  /\ Output /= <<PlaceholderClassificacao>>
  /\ Lower(dados_extraidos[1].descricao_produtos) /= dados_extraidos[1].descricao_produtos

\* s has a digit wherever pattern has "N" and the pattern's character elsewhere
HasFormat(s, pattern) ==
  /\ Len(s) = Len(pattern)
  /\ \A i \in 1..Len(pattern) :
       IF pattern[i] = "N" THEN IsDigit(s[i]) ELSE s[i] = pattern[i]

\* C17: in every record the validator accepts, the supplier's tax id has the
\* format NN.NNN.NNN/NNNN-NN, and the document id of a billed party that is
\* present has the format NNN.NNN.NNN-NN.
C17_IdFormats ==
  (Ran("validate") /\ dados_extraidos /= None) =>
    /\ HasFormat(dados_extraidos[1].fornecedor.cnpj, <<"N","N",".","N","N","N",".","N","N","N","/","N","N","N","N","-","N","N">>)
    /\ dados_extraidos[1].faturado /= None =>
         HasFormat(dados_extraidos[1].faturado[1].cpf, <<"N","N","N",".","N","N","N",".","N","N","N","-","N","N">>)

\* C18: in every record the validator accepts the description of products and
\* services is a non-empty text; an answer whose description is the empty
\* string is rejected.
C18_DescriptionNonEmpty ==
  Ran("validate") =>
    /\ dados_extraidos /= None => Len(dados_extraidos[1].descricao_produtos) > 0
    /\ response_text[1].doc.descricao_produtos = JStr(<<>>) =>
         (dados_extraidos = None /\ InvalidExtraction(failure))

\* the answer has exactly one installment, and it carries no due date
SingleInstallmentNoDueDate(doc) ==
  /\ doc.kind = "object"
  /\ doc.parcelas.t = "array"
  /\ Len(doc.parcelas.items) = 1
  /\ doc.parcelas.items[1].data_vencimento \in {JMissing, JNull}

\* but for the due date of its installment, the answer is the well-formed one
WellFormedButDueDate(doc) ==
  [doc EXCEPT !.parcelas.items[1].data_vencimento = JStr(<<"2","0","2","4","-","0","3","-","1","5">>)] = DieselDoc

\* C19: an answer with exactly one installment that carries no due date, and
\* well-formed otherwise, is accepted, and the installment of the record has
\* the issue date of the invoice as its due date.
C19_SingleInstallmentDefault ==
  (/\ Ran("validate")
   /\ SingleInstallmentNoDueDate(response_text[1].doc)
   /\ WellFormedButDueDate(response_text[1].doc)) =>
    /\ dados_extraidos /= None
    /\ dados_extraidos[1].parcelas[1].data_vencimento = dados_extraidos[1].data_emissao

\* the number of times a stage was executed
TimesRan(stage) == Cardinality({i \in 1..Len(ran) : ran[i] = stage})

\* C20: within one process_pdf call no stage is executed twice: the text
\* extraction and the model call are each made at most once, and the parser,
\* the validator and the classifier each run at most once, whether the call
\* returns a success or a failure.
C20_NoRetry ==
  \A stage \in {"extract", "prompt", "generate", "parse", "validate", "classify",
                "package"} :
    TimesRan(stage) <= 1

\* the model call failed, it had been made once, and process_pdf returned the
\* failure
C20_Witness ==
  /\ pc = "done"
  /\ resultado /= None
  /\ ~resultado[1].sucesso
  /\ failure.type = "ResourceExhausted"
  /\ TimesRan("generate") = 1
  /\ TimesRan("extract") = 1

\* the keywords of the list that occur in the description or in the text
Occurring(texto, descricao, keywords) ==
  {k \in 1..Len(keywords) :
     Contains(descricao, keywords[k]) \/ Contains(texto, keywords[k])}

\* the two counts of the scorer add up to the number of keywords that occur
CountedOnce(texto, descricao, keywords) ==
  /\ found_keywords_descricao(descricao, keywords)
       + found_keywords_texto(texto, descricao, keywords)
     = Cardinality(Occurring(texto, descricao, keywords))
  /\ found_keywords_descricao(descricao, keywords)
       + found_keywords_texto(texto, descricao, keywords)
     <= Len(keywords)

CountedOnceAll(texto_lower, descricao_lower) ==
  \A i \in 1..Len(classification_rules) :
    CountedOnce(texto_lower, descricao_lower, classification_rules[i].keywords)

\* C21: for every keyword list of the rule table the scorer counts each
\* keyword at most once: a keyword of the description is not counted again
\* for the text, and the two counts together never exceed the number of
\* keywords.
C21_CountedOnce ==
  Ran("classify") =>
    CountedOnceAll(Lower(pdf_text), Lower(dados_extraidos[1].descricao_produtos))

\* a keyword of a category occurs both in the description and in the text of
\* a classified record
InBoth(texto_lower, descricao_lower) ==
  \E i \in 1..Len(classification_rules) :
    \E k \in 1..Len(classification_rules[i].keywords) :
      /\ Contains(descricao_lower, classification_rules[i].keywords[k])
      /\ Contains(texto_lower, classification_rules[i].keywords[k])

C21_Witness ==
  /\ Ran("classify")
  /\ InBoth(Lower(pdf_text), Lower(dados_extraidos[1].descricao_produtos))

RatEq(a, b) == a.num * b.den = b.num * a.den

\* min(1, (total_found / n) * (1.2 if total_found > 1 else 1)
\*          * (1.5 if in_desc > 0 else 1)), and 0 when nothing was found
ReferenceScore(in_desc, total_found, n) ==
  IF total_found = 0 THEN Rat(0, 1)
  ELSE IF total_found * (IF total_found > 1 THEN 12 ELSE 10)
                      * (IF in_desc > 0 THEN 15 ELSE 10) >= n * 100
  THEN Rat(1, 1)
  ELSE Rat(total_found * (IF total_found > 1 THEN 12 ELSE 10)
                       * (IF in_desc > 0 THEN 15 ELSE 10),
           n * 100)

\* the confidence of category i is the reference value for its counts
EqualsReference(i, in_desc, in_texto) ==
  RatEq(confidences[i],
        ReferenceScore(in_desc, in_desc + in_texto,
                       Len(classification_rules[i].keywords)))

EqualsReferenceAll(texto_lower, descricao_lower) ==
  \A i \in 1..Len(confidences) :
    ~is_fiscal_category(classification_rules[i].keywords) =>
      EqualsReference(i,
        found_keywords_descricao(descricao_lower, classification_rules[i].keywords),
        found_keywords_texto(texto_lower, descricao_lower,
                             classification_rules[i].keywords))

\* C22: for every category that is not fiscal the confidence is 0 when no
\* keyword was found, and otherwise min(1, (total_found / len(keywords)) *
\* (1.2 if total_found > 1 else 1) * (1.5 if a keyword is in the description
\* else 1)).
C22_ReferenceScore ==
  Ran("classify") =>
    EqualsReferenceAll(Lower(pdf_text), Lower(dados_extraidos[1].descricao_produtos))

\* a category that is not fiscal got both boosts and a confidence below 1,
\* and another found nothing
C22_Witness ==
  /\ Ran("classify")
  /\ \E i \in 1..Len(confidences) :
       /\ ~is_fiscal_category(classification_rules[i].keywords)
       /\ found_keywords_descricao(Lower(dados_extraidos[1].descricao_produtos),
                                   classification_rules[i].keywords) > 1
       /\ confidences[i].num < confidences[i].den
  /\ \E j \in 1..Len(confidences) :
       /\ ~is_fiscal_category(classification_rules[j].keywords)
       /\ confidences[j].num = 0

\* the factor, in tenths, by which the confidence is multiplied before the
\* final min(): 0.1, 0.2 or 1
ClaimedFactor(fiscal, in_desc, product) ==
  IF ~fiscal THEN 10
  ELSE IF in_desc = 0 THEN 1
  ELSE IF product THEN 2
  ELSE 10

\* min(1, boosted * factor / 10) for the boosted value of the counts
PenalizedReference(in_desc, total_found, n, factor) ==
  IF total_found = 0 THEN Rat(0, 1)
  ELSE RatMin(Rat(total_found * (IF total_found > 1 THEN 12 ELSE 10)
                              * (IF in_desc > 0 THEN 15 ELSE 10) * factor,
                  n * 1000),
              Rat(1, 1))

PenaltyAsClaimed(i, in_desc, in_texto, descricao_lower) ==
  RatEq(confidences[i],
        PenalizedReference(
          in_desc, in_desc + in_texto, Len(classification_rules[i].keywords),
          ClaimedFactor(
            \E f \in 1..Len(fiscal_keywords) :
              \E k \in 1..Len(classification_rules[i].keywords) :
                classification_rules[i].keywords[k] = fiscal_keywords[f],
            in_desc,
            \E p \in 1..Len(product_indicators) :
              Contains(descricao_lower, product_indicators[p]))))

PenaltyAsClaimedAll(texto_lower, descricao_lower) ==
  \A i \in 1..Len(confidences) :
    PenaltyAsClaimed(i,
      found_keywords_descricao(descricao_lower, classification_rules[i].keywords),
      found_keywords_texto(texto_lower, descricao_lower,
                           classification_rules[i].keywords),
      descricao_lower)

MoreMatchesScoreHigher(i, texto_lower, d, d2, conf2) ==
  (/\ found_keywords_descricao(d2, classification_rules[i].keywords) >= 1
   /\ found_keywords_descricao(d, classification_rules[i].keywords)
        > found_keywords_descricao(d2, classification_rules[i].keywords)
   /\ found_keywords_descricao(d, classification_rules[i].keywords)
        + found_keywords_texto(texto_lower, d, classification_rules[i].keywords)
      = found_keywords_descricao(d2, classification_rules[i].keywords)
        + found_keywords_texto(texto_lower, d2, classification_rules[i].keywords)
   /\ confidences[i].num < confidences[i].den
   /\ conf2.num < conf2.den)
  => RatGt(confidences[i], conf2)

ThreefoldWeight(texto_lower, descricao_lower) ==
  \A i \in 1..Len(confidences) :
    \A k \in 1..Len(classification_rules[i].keywords) :
      \A p \in Occurrences(descricao_lower, classification_rules[i].keywords[k]) :
        MoreMatchesScoreHigher(
          i, texto_lower, descricao_lower,
          Cut(descricao_lower, p, Len(classification_rules[i].keywords[k])),
          calculate_classification_confidence(
            texto_lower,
            Cut(descricao_lower, p, Len(classification_rules[i].keywords[k])),
            classification_rules[i].keywords))

\* C24: keywords of the description weigh three times keywords of the text in
\* the confidence: for one keyword list and one total of keywords found, with
\* a keyword in the description of both inputs and no confidence capped at 1,
\* the input with more keywords in its description scores strictly higher.
C24_ThreefoldWeight ==
  Ran("classify") =>
    ThreefoldWeight(Lower(pdf_text), Lower(dados_extraidos[1].descricao_produtos))

\* the positions of the fence markers of t, and of those tagged json
FencesOf(t) == {i \in 1..Len(t) : t[i].k = "fence"}
JsonFencesOf(t) == {i \in 1..(Len(t) - 1) : t[i].k = "fence" /\ t[i + 1].k = "json"}
First(S) == CHOOSE x \in S : \A y \in S : x <= y

\* the text between position from and the first fence marker after it
UpToFence(t, from, later) ==
  SubSeq(t, from + 1, IF later = {} THEN Len(t) ELSE First(later) - 1)
BlockFrom(t, from) == UpToFence(t, from, {i \in FencesOf(t) : i > from})

\* every block opened in t by the fence the parser starts from is closed
BlockClosed(t) ==
  IF JsonFencesOf(t) /= {}
  THEN \E i \in FencesOf(t) : i > First(JsonFencesOf(t)) + 1
  ELSE Cardinality(FencesOf(t)) /= 1

\* the text the parser is to decode, for a trimmed answer t: the block tagged
\* json, else the first block, else all of t
BlockToDecode(t) ==
  IF JsonFencesOf(t) /= {} THEN BlockFrom(t, First(JsonFencesOf(t)) + 1)
  ELSE IF FencesOf(t) /= {} THEN BlockFrom(t, First(FencesOf(t)))
  ELSE t

\* the parser's outcome is the decoding of text d
DecodedFrom(d) ==
  IF Len(d) = 1 /\ d[1].k = "doc"
  THEN extracted_data = Some(LoadDocument(d[1].doc))
  ELSE extracted_data = None /\ MalformedResponse(failure)

\* C25: the parser decodes the trimmed content of the block tagged json when
\* the answer has one, else of its first fenced block, else the whole trimmed
\* answer; the text before the opening fence and after the closing fence
\* takes no part in the decoding.
C25_DecodedBlock ==
  (Ran("parse") /\ BlockClosed(StripTokens(response_text))) =>
    DecodedFrom(StripTokens(BlockToDecode(StripTokens(response_text))))

\* an answer with a first block that is no JSON, then a block tagged json,
\* then prose: the tagged block was decoded
C25_Witness ==
  /\ Ran("parse")
  /\ extracted_data /= None
  /\ Cardinality(FencesOf(response_text)) = 4
  /\ First(JsonFencesOf(response_text)) > First(FencesOf(response_text))
  /\ response_text[Len(response_text)].k = "prose"

\* the classifications the classifier computes from a full text and a
\* description, both lowered, with the confidences of the shipped rule table
ComputedFrom(confs, texto_lower, descricao_lower) ==
  BestOf(KeptFrom(classification_rules, 1, confs, texto_lower, descricao_lower))

ComputedFromTexts(texto_lower, descricao_lower) ==
  ComputedFrom(Confidences(classification_rules, texto_lower, descricao_lower),
               texto_lower, descricao_lower)

\* the answer of the model carried a classification list of its own
PayloadHasList ==
  \E i \in 1..Len(response_text) :
    /\ response_text[i].k = "doc"
    /\ Len(response_text[i].doc.classificacoes_despesa) > 0

Returned == resultado[1].dados_extraidos[1]

\* C26: every successful result of process_pdf carries exactly the
\* classifications the classifier computes from the extracted text and the
\* description of the record; neither the placeholder the validator writes
\* (MANUTENÇÃO E OPERAÇÃO, "Óleo diesel - Combustível", confidence 0.9) nor an
\* entry of a classification list in the model's answer is among them.
C26_NoPlaceholder ==
  (resultado /= None /\ resultado[1].sucesso) =>
    /\ Returned.classificacoes_despesa =
         ComputedFromTexts(Lower(pdf_text), Lower(Returned.descricao_produtos))
    /\ \A j \in 1..Len(Returned.classificacoes_despesa) :
         /\ Returned.classificacoes_despesa[j] /= PlaceholderClassificacao
         /\ Returned.classificacoes_despesa[j] /= PayloadClassificacao

\* a call whose answer carried a classification list returned successfully,
\* after the validator had put the placeholder on the record
C26_Witness ==
  /\ pc = "done"
  /\ resultado /= None
  /\ resultado[1].sucesso
  /\ PayloadHasList
  /\ Ran("validate")
  /\ Ran("classify")


\* confidence <= 0.12
AtMostTwelveHundredths(confidence) == confidence.num * 100 <= 12 * confidence.den

\* whatever number of the keywords the text holds, a category scored with no
\* keyword in the description gets at most 0.12
TextOnlyAtMost(keywords, descricao_lower) ==
  \A in_texto \in 0..Len(keywords) :
    AtMostTwelveHundredths(ConfidenceOf(0, in_texto, keywords, descricao_lower))

\* category i is IMPOSTOS E TAXAS and the description holds none of its keywords
FiscalUndescribed(i, descricao_lower) ==
  /\ classification_rules[i].categoria = "IMPOSTOS E TAXAS"
  /\ found_keywords_descricao(descricao_lower, classification_rules[i].keywords) = 0

NoFiscalEntry(i, descricao_lower) ==
  FiscalUndescribed(i, descricao_lower) =>
    /\ AtMostTwelveHundredths(confidences[i])
    /\ TextOnlyAtMost(classification_rules[i].keywords, descricao_lower)
    /\ \A j \in 1..Len(Output) : Output[j].categoria /= "IMPOSTOS E TAXAS"

\* C27: with the shipped rule table, when the description holds none of the
\* keywords of IMPOSTOS E TAXAS, the confidence of that category is at most
\* 0.12, whatever number of its keywords the full text holds, and no
\* classification on the record has that category.
C27_FiscalNeedsDescription ==
  (Ran("classify") /\ failure = NoExc) =>
    \A i \in 1..Len(confidences) :
      NoFiscalEntry(i, Lower(dados_extraidos[1].descricao_produtos))

\* the text held several keywords of IMPOSTOS E TAXAS, the description none:
\* the category scored above zero and is not on the record
C27_Witness ==
  /\ Ran("classify")
  /\ failure = NoExc
  /\ \E i \in 1..Len(confidences) :
       /\ FiscalUndescribed(i, Lower(dados_extraidos[1].descricao_produtos))
       /\ found_keywords_texto(Lower(pdf_text),
                               Lower(dados_extraidos[1].descricao_produtos),
                               classification_rules[i].keywords) >= 3
       /\ confidences[i].num > 0
       /\ \A j \in 1..Len(Output) : Output[j].categoria /= "IMPOSTOS E TAXAS"

\* a percentage in hundredths of a percent
Hundredths(percentual) ==
  IF percentual.e = 0 - 2 THEN percentual.n
  ELSE IF percentual.e = 0 - 1 THEN percentual.n * 10
  ELSE percentual.n * 100

RECURSIVE SumOfPercentages(_)
SumOfPercentages(cs) ==
  IF Len(cs) = 0 THEN 0
  ELSE Hundredths(Head(cs).percentual) + SumOfPercentages(Tail(cs))

\* C28: every classification the classifier leaves on the record, kept or
\* fallback, has the percentage Decimal("100.00"), so the percentages of a
\* record with n classifications sum to n * 100 (200 or 300 for two or three
\* entries, not 100).
C28_PercentageHundred ==
  (Ran("classify") /\ failure = NoExc) =>
    /\ \A j \in 1..Len(Output) :
         Output[j].percentual = Decimal(10000, 0 - 2, "str")
    /\ SumOfPercentages(Output) = Len(Output) * 10000
    /\ Len(Output) >= 2 => SumOfPercentages(Output) \in {20000, 30000}

\* three classifications of different confidences are on the record and their
\* percentages sum to 300
C28_Witness ==
  /\ Ran("classify")
  /\ failure = NoExc
  /\ Len(Output) = 3
  /\ Output[1].confianca /= Output[3].confianca
  /\ SumOfPercentages(Output) = 30000

\* the step is a call of SupplierService.create with tax_id
IsCreateOf(tax_id) ==
  /\ Len(requests') = Len(requests) + 1
  /\ requests'[Len(requests')].op = "create"
  /\ requests'[Len(requests')].identifier = tax_id

\* a stored supplier, active or soft-deleted, holds tax_id
HeldBy(table, tax_id) == \E i \in 1..Len(table) : table[i].tax_id = tax_id

RejectedAsDuplicate(result, before, after) ==
  /\ ~result.ok
  /\ result.exc.type = "DuplicateError"
  /\ after = before

C29_Step ==
  \A tax_id \in TaxIds :
    (IsCreateOf(tax_id) /\ HeldBy(suppliers, tax_id)) =>
      RejectedAsDuplicate(requests'[Len(requests')].result, suppliers, suppliers')

\* C29: after any sequence of create, update, soft_delete and reactivate calls
\* on the supplier service, a create with a tax id that a stored supplier
\* holds, active or soft-deleted, raises DuplicateError and leaves the table
\* as it was.
C29_DuplicateRejected == [][C29_Step]_vars

\* the same, for tax ids held by an active supplier only
ActiveDuplicateStep ==
  \A tax_id \in TaxIds :
    (IsCreateOf(tax_id) /\ get_by_tax_id(suppliers, tax_id) /= None) =>
      RejectedAsDuplicate(requests'[Len(requests')].result, suppliers, suppliers')
ActiveDuplicateRejected == [][ActiveDuplicateStep]_vars

\* the rows of the table of the call that hold its identifier
RowsFor(call) ==
  IF call.op = "get_or_create_by_tax_id"
  THEN {i \in 1..Len(suppliers) : suppliers[i].tax_id = call.identifier}
  ELSE {i \in 1..Len(billed_people) : billed_people[i].document_id = call.identifier}

\* two calls of the same get_or_create with the same identifier have returned
BothReturned(a, b) ==
  /\ a.op = b.op
  /\ a.identifier = b.identifier
  /\ a.pc = "done"
  /\ b.pc = "done"

SameRecord(a, b) ==
  /\ a.result.ok
  /\ b.result.ok
  /\ a.result.val.id = b.result.val.id

\* C30: when two concurrent calls of get_or_create_by_tax_id, or of
\* get_or_create_by_document_id, with the same identifier have both finished,
\* in whatever order their statements ran, the table holds at most one row for
\* the identifier and both calls returned that row without an error.
C30_GetOrCreateOnce ==
  BothReturned(requests[1], requests[2]) =>
    /\ Cardinality(RowsFor(requests[1])) <= 1
    /\ SameRecord(requests[1], requests[2])

\* the unique index keeps the table at one row per identifier
OneRowPerIdentifier ==
  \A c \in 1..Len(requests) : Cardinality(RowsFor(requests[c])) <= 1

\* on an empty table both calls found nothing, one created the row and the
\* other's commit was rejected
RaceLost ==
  /\ BothReturned(requests[1], requests[2])
  /\ Cardinality(RowsFor(requests[1])) = 1
  /\ requests[1].result.ok
  /\ requests[1].result.val.active
  /\ ~requests[2].result.ok
  /\ requests[2].result.exc.type = "IntegrityError"
====
